---- MODULE Spec2Model ----
(***************************************************************************)
(* A model of nacp, the admission-control reverse proxy in front of the    *)
(* Nomad HTTP API (cmd/nacp/nacp.go and the webhook stages).               *)
(*                                                                         *)
(* One request is handled at a time.  The request path (route classifier,  *)
(* request rewriter, admission pipeline) is the action ServeHTTP; the      *)
(* upstream's reply and the response rewriter are the action               *)
(* UpstreamReply.  The route classifier alone is exercised on many paths   *)
(* by the specification SpecRoute, the construction of the server from its *)
(* configuration by SpecBuild, the handler with the resolve-token flag set *)
(* or not by SpecToken, and the outbound HTTP calls of the webhook stages, *)
(* the token resolver and the reverse proxy, step by step and with the     *)
(* client free to leave, by SpecCall.                                      *)
(*                                                                         *)
(* Strings are modelled structurally: a path is a sequence of characters,  *)
(* a message is an atomic record, a text is a prefix, a format and the     *)
(* messages it lists.                                                      *)
(***************************************************************************)
EXTENDS Integers, Sequences, FiniteSets, TLC

VARIABLES
    conf,          \* the configuration buildServer is given
    mutators,      \* jobHandler.mutators, in configuration order
    validators,    \* jobHandler.validators, in configuration order
    pc,            \* "idle" | "classified" | "upstream" | "done"
    req,           \* the request as the client sent it
    route,         \* the label the classifier gave the request
    pipe,          \* what the admission pipeline returned for this request
    upstreamReqs,  \* the requests issued to the upstream for this request
    upResp,        \* the upstream's reply
    clientResp,    \* what the client received
    resolveToken,  \* jobHandler.resolveToken
    selfCalls,     \* the calls of /v1/acl/token/self made for this request
    call,          \* the outbound HTTP call a stage, the resolver or the proxy makes
    cancelled,     \* whether the client is gone and the request's context done
    inflight       \* the requests the server is handling concurrently, by goroutine

vars == <<inflight, call, cancelled, conf, mutators, validators, pc, req, route, pipe, upstreamReqs, upResp, clientResp,
          resolveToken, selfCalls>>

\* Bounds of the model.
MaxMutators == 2
MaxValidators == 2
MaxIdLen == 3
MaxTokenStages == 1

(***************************************************************************)
(* Characters and paths                                                    *)
(***************************************************************************)
Lower == {"a","b","c","d","e","f","g","h","i","j","k","l","m",
          "n","o","p","q","r","s","t","u","v","w","x","y","z"}
Upper == {"A","B","C","D","E","F","G","H","I","J","K","L","M",
          "N","O","P","Q","R","S","T","U","V","W","X","Y","Z"}
Digits == {"0","1","2","3","4","5","6","7","8","9"}

JobsPath == <<"/","v","1","/","j","o","b","s">>
JobPrefix == <<"/","v","1","/","j","o","b","/">>
ValidatePath == <<"/","v","1","/","v","a","l","i","d","a","t","e","/","j","o","b">>
PlanSuffix == <<"/","p","l","a","n">>

HasPrefix(p, pre) ==
    /\ Len(p) >= Len(pre)
    /\ SubSeq(p, 1, Len(pre)) = pre

HasSuffix(p, suf) ==
    /\ Len(p) >= Len(suf)
    /\ SubSeq(p, Len(p) - Len(suf) + 1, Len(p)) = suf

\* The class [a-zA-Z].
FirstClass == Lower \cup Upper

\* The class [a-z-Z0-9\-] as RE2 reads it: the range a-z, a literal '-',
\* a literal 'Z', the range 0-9 and an escaped '-'.
RestClass == Lower \cup {"-", "Z"} \cup Digits

\* [a-zA-Z]+[a-z-Z0-9\-]* against the whole of id.
MatchId(id) ==
    \E k \in 1..Len(id) :
        \A i \in 1..Len(id) :
            IF i <= k THEN id[i] \in FirstClass ELSE id[i] \in RestClass

jobPathRegex(p) ==
    /\ HasPrefix(p, JobPrefix)
    /\ MatchId(SubSeq(p, Len(JobPrefix) + 1, Len(p)))

jobPlanPathRegex(p) ==
    /\ HasPrefix(p, JobPrefix)
    /\ Len(p) >= Len(JobPrefix) + Len(PlanSuffix)
    /\ HasSuffix(p, PlanSuffix)
    /\ MatchId(SubSeq(p, Len(JobPrefix) + 1, Len(p) - Len(PlanSuffix)))

isCreate(r) == r.Method \in {"PUT", "POST"} /\ r.Path = JobsPath

isUpdate(r) == r.Method \in {"PUT", "POST"} /\ jobPathRegex(r.Path)

isRegister(r) == isCreate(r) \/ isUpdate(r)

isPlan(r) == r.Method \in {"PUT", "POST"} /\ jobPlanPathRegex(r.Path)

isValidate(r) == r.Method \in {"PUT", "POST"} /\ r.Path = ValidatePath

\* The if / else-if chain of the handler and of ModifyResponse.
Route(r) ==
    IF isRegister(r) THEN "Register"
    ELSE IF isPlan(r) THEN "Plan"
    ELSE IF isValidate(r) THEN "Validate"
    ELSE "Passthrough"

(***************************************************************************)
(* Messages, texts and errors                                              *)
(***************************************************************************)
\* One message: the text of one plain error or warning.
Msg(k, i) == [k |-> k, i |-> i]

\* A text is what the wire carries: an optional prefix, then either the
\* messages as they are ("raw"), go-multierror's listing ("errors") or
\* Nomad's warning listing ("warnings").
EmptyText == [prefix |-> "", fmt |-> "raw", items |-> <<>>]

RawText(m) == [prefix |-> "", fmt |-> "raw", items |-> <<m>>]

NilErr == [kind |-> "nil", prefix |-> "", msgs |-> <<>>, inner |-> "nil"]

\* fmt.Errorf("%v", m)
PlainErr(m) == [kind |-> "plain", prefix |-> "", msgs |-> <<m>>, inner |-> "plain"]

\* multierror.Append over the messages ms
MultiErr(ms) == [kind |-> "multi", prefix |-> "", msgs |-> ms, inner |-> "multi"]

\* fmt.Errorf(p + ": %w", e): no longer a *multierror.Error, same messages.
Wrap(p, e) == [kind |-> "plain", prefix |-> p, msgs |-> e.msgs, inner |-> e.inner]

\* err.Error()
ErrorText(e) ==
    [prefix |-> e.prefix,
     fmt |-> IF e.inner = "multi" THEN "errors" ELSE "raw",
     items |-> e.msgs]

DecodeErr == PlainErr(Msg("invalid character", 0))

(***************************************************************************)
(* Jobs and their JSON encoding                                            *)
(***************************************************************************)
NilMeta == [form |-> "nil", keys |-> {}]

NilJob == [isNil |-> TRUE, ID |-> "", Meta |-> NilMeta]

\* json.Decode into api.Job: an absent or null Meta decodes to a nil map.
decodeJob(w) ==
    IF w.isNil THEN NilJob
    ELSE [isNil |-> FALSE,
          ID |-> w.ID,
          Meta |-> IF w.Meta.form \in {"absent", "null"} THEN NilMeta ELSE w.Meta]

\* json.Marshal of api.Job: a nil map is written as null, a nil job as null.
encodeJob(j) ==
    IF j.isNil THEN [isNil |-> TRUE, ID |-> "", Meta |-> [form |-> "absent", keys |-> {}]]
    ELSE [isNil |-> FALSE,
          ID |-> j.ID,
          Meta |-> IF j.Meta.form = "nil" THEN [form |-> "null", keys |-> {}] ELSE j.Meta]

\* A decoder that accepts every body.
JsonDecodeRequest_NeverFails(b) ==
    [err |-> FALSE, Job |-> decodeJob(b.Job), PolicyOverride |-> b.PolicyOverride]

\* json.NewDecoder(body).Decode(request envelope)
JsonDecodeRequest(b) ==
    [err |-> ~b.valid, Job |-> decodeJob(b.Job), PolicyOverride |-> b.PolicyOverride]

\* json.Marshal writing every job's Meta as null.
JsonMarshalRequest_DropsMeta(e) ==
    [valid |-> TRUE,
     Job |-> [encodeJob(e.Job) EXCEPT !.Meta = [form |-> "null", keys |-> {}]],
     PolicyOverride |-> e.PolicyOverride]

\* json.Marshal(request envelope)
JsonMarshalRequest(e) ==
    [valid |-> TRUE, Job |-> encodeJob(e.Job), PolicyOverride |-> e.PolicyOverride]

\* len(data) of an encoded request body.
BodyLen(b) ==
    IF ~b.valid THEN 1
    ELSE 8 + (IF b.PolicyOverride THEN 4 ELSE 5)
           + (IF b.Job.isNil THEN 4
              ELSE 2 + (CASE b.Job.Meta.form = "absent" -> 0
                          [] b.Job.Meta.form = "null" -> 4
                          [] OTHER -> 2 + Cardinality(b.Job.Meta.keys)))

\* rewriteRequest replacing the body and leaving r.ContentLength alone.
rewriteRequest_KeepsLength(r, data) ==
    [r EXCEPT !.Body = data]

rewriteRequest(r, data) ==
    [r EXCEPT !.ContentLength = BodyLen(data), !.Body = data]

(***************************************************************************)
(* Stages                                                                  *)
(***************************************************************************)
\* What a configured mutator does when invoked: the job it returns, whether
\* it emits a warning, and the hard error it returns.
MutatorKinds ==
    { [op |-> "same",  warn |-> FALSE, err |-> "nil"],
      [op |-> "hello", warn |-> TRUE,  err |-> "nil"],
      [op |-> "nil",   warn |-> FALSE, err |-> "nil"],
      [op |-> "same",  warn |-> TRUE,  err |-> "plain"],
      [op |-> "same",  warn |-> FALSE, err |-> "multi"] }

ValidatorKinds ==
    { [warn |-> FALSE, err |-> "nil"],
      [warn |-> TRUE,  err |-> "nil"],
      [warn |-> TRUE,  err |-> "plain"],
      [warn |-> FALSE, err |-> "multi"] }

StageErr(kind, k1, k2, i) ==
    CASE kind = "nil" -> NilErr
      [] kind = "plain" -> PlainErr(Msg(k1, i))
      [] kind = "multi" -> MultiErr(<<Msg(k1, i), Msg(k2, i)>>)

StageWarnings(warn, k, i) == IF warn THEN <<Msg(k, i)>> ELSE <<>>

\* payload.Job.Meta["hello"] = "world", allocating the map when it is nil.
SetHello(job) ==
    [job EXCEPT !.Meta = [form |-> "map", keys |-> job.Meta.keys \cup {"hello"}]]

\* The i-th mutator's Mutate(payload) -> (job, warnings, err).
Mutate(m, i, payload) ==
    [job |-> IF m.err # "nil" THEN NilJob
             ELSE CASE m.op = "same" -> payload.Job
                    [] m.op = "hello" -> SetHello(payload.Job)
                    [] m.op = "nil" -> NilJob,
     warnings |-> StageWarnings(m.warn, "mutator warning", i),
     err |-> StageErr(m.err, "mutator error", "mutator error b", i)]

\* The j-th validator's Validate(payload) -> (warnings, err).
Validate(v, j, payload) ==
    [warnings |-> StageWarnings(v.warn, "validator warning", j),
     err |-> StageErr(v.err, "validator error", "validator error b", j)]

(***************************************************************************)
(* Admission pipeline (JobHandler)                                         *)
(***************************************************************************)
RECURSIVE MutatorsFrom(_, _, _, _)
\* The mutator loop adopting whatever job a mutator returns, nil included.
MutatorsFrom_AdoptsNilJob(i, job, warnings, calls) ==
    IF i > Len(mutators)
    THEN [job |-> job, warnings |-> warnings, err |-> NilErr, calls |-> calls]
    ELSE LET out == Mutate(mutators[i], i, [Job |-> job])
             log == Append(calls, [kind |-> "m", idx |-> i, job |-> job])
         IN  IF out.err.kind # "nil"
             THEN [job |-> job, warnings |-> warnings, err |-> out.err, calls |-> log]
             ELSE MutatorsFrom(i + 1, out.job, warnings \o out.warnings, log)

MutatorsFrom(i, job, warnings, calls) ==
    IF i > Len(mutators)
    THEN [job |-> job, warnings |-> warnings, err |-> NilErr, calls |-> calls]
    ELSE LET out == Mutate(mutators[i], i, [Job |-> job])
             log == Append(calls, [kind |-> "m", idx |-> i, job |-> job])
         IN  IF out.err.kind # "nil"
             THEN [job |-> job, warnings |-> warnings, err |-> out.err, calls |-> log]
             ELSE MutatorsFrom(i + 1,
                               IF out.job.isNil THEN job ELSE out.job,
                               warnings \o out.warnings,
                               log)

RECURSIVE ValidatorsFrom(_, _, _, _)
ValidatorsFrom(j, job, warnings, calls) ==
    IF j > Len(validators)
    THEN [warnings |-> warnings, err |-> NilErr, calls |-> calls]
    ELSE LET out == Validate(validators[j], j, [Job |-> job])
             log == Append(calls, [kind |-> "v", idx |-> j, job |-> job])
         IN  IF out.err.kind # "nil"
             THEN [warnings |-> warnings, err |-> out.err, calls |-> log]
             ELSE ValidatorsFrom(j + 1, job, warnings \o out.warnings, log)

\* The pipeline running the validators although a mutator failed.
ApplyAdmissionControllers_KeepsGoing(payload) ==
    LET m == MutatorsFrom(1, payload.Job, <<>>, <<>>)
        v == ValidatorsFrom(1, m.job, <<>>, <<>>)
    IN  [job |-> m.job,
         warnings |-> m.warnings \o v.warnings,
         err |-> IF m.err.kind # "nil" THEN m.err ELSE v.err,
         calls |-> m.calls \o v.calls]

AdmissionMutators(payload) == MutatorsFrom(1, payload.Job, <<>>, <<>>)

AdmissionValidators(payload) == ValidatorsFrom(1, payload.Job, <<>>, <<>>)

ApplyAdmissionControllers(payload) ==
    LET m == AdmissionMutators(payload)
    IN  IF m.err.kind # "nil" THEN m
        ELSE LET v == AdmissionValidators([payload EXCEPT !.Job = m.job])
             IN  [job |-> m.job,
                  warnings |-> m.warnings \o v.warnings,
                  err |-> v.err,
                  calls |-> m.calls \o v.calls]

(***************************************************************************)
(* Request context and token resolver                                      *)
(***************************************************************************)
\* A nil *api.ACLToken.
NoTokenInfo == [isNil |-> TRUE, AccessorID |-> ""]

\* config.RequestContext with only its zero values.
EmptyReqCtx ==
    [isNil |-> FALSE, ClientIP |-> "", AccessorID |-> "", TokenInfo |-> NoTokenInfo]

\* A nil *config.RequestContext.
NilReqCtx ==
    [isNil |-> TRUE, ClientIP |-> "", AccessorID |-> "", TokenInfo |-> NoTokenInfo]

\* The X-Forwarded-For header is the list of its comma-separated entries,
\* empty when the header is absent; RemoteAddr is host and port.
getClientIP(r) ==
    IF r.XForwardedFor # <<>> THEN r.XForwardedFor[1] ELSE r.RemoteAddr.host

\* The answer of the upstream to GET /v1/acl/token/self: whether the call
\* got an answer at all, its status, whether its body decodes as an ACL
\* token, and the accessor the body names.
SelfReplies ==
    { [transport |-> FALSE, status |-> 0,   decodable |-> FALSE, AccessorID |-> ""],
      [transport |-> TRUE,  status |-> 403, decodable |-> TRUE,  AccessorID |-> "acc-0"],
      [transport |-> TRUE,  status |-> 200, decodable |-> FALSE, AccessorID |-> ""],
      [transport |-> TRUE,  status |-> 200, decodable |-> TRUE,  AccessorID |-> "acc-1"] }

\* The resolver taking the body of any answer, whatever its status.
resolveTokenAccessor_AnyStatus(token, reply) ==
    IF token = ""
    THEN [calls |-> <<>>, tokenInfo |-> NoTokenInfo, err |-> NilErr]
    ELSE LET sent == <<[token |-> token, reply |-> reply]>>
         IN  IF ~reply.transport
             THEN [calls |-> sent, tokenInfo |-> NoTokenInfo,
                   err |-> PlainErr(Msg("connection refused", 0))]
             ELSE IF ~reply.decodable
             THEN [calls |-> sent, tokenInfo |-> NoTokenInfo, err |-> DecodeErr]
             ELSE [calls |-> sent,
                   tokenInfo |-> [isNil |-> FALSE, AccessorID |-> reply.AccessorID],
                   err |-> NilErr]

\* resolveTokenAccessor(transport, nomadAddress, token) -> (tokenInfo, err),
\* with the calls it made of the upstream.
resolveTokenAccessor(token, reply) ==
    IF token = ""
    THEN [calls |-> <<>>, tokenInfo |-> NoTokenInfo, err |-> NilErr]
    ELSE LET sent == <<[token |-> token, reply |-> reply]>>
         IN  IF ~reply.transport
             THEN [calls |-> sent, tokenInfo |-> NoTokenInfo,
                   err |-> PlainErr(Msg("connection refused", 0))]
             ELSE IF reply.status # 200
             THEN [calls |-> sent, tokenInfo |-> NoTokenInfo,
                   err |-> PlainErr(Msg("unexpected status code", reply.status))]
             ELSE IF ~reply.decodable
             THEN [calls |-> sent, tokenInfo |-> NoTokenInfo, err |-> DecodeErr]
             ELSE [calls |-> sent,
                   tokenInfo |-> [isNil |-> FALSE, AccessorID |-> reply.AccessorID],
                   err |-> NilErr]

\* The handler's first part: the request context it stores under
\* "request_context".  A resolver error is logged and nothing else.
NewRequestContext(r, flag, reply) ==
    LET res == IF flag THEN resolveTokenAccessor(r.Token, reply)
               ELSE [calls |-> <<>>, tokenInfo |-> NoTokenInfo, err |-> NilErr]
    IN  [calls |-> res.calls,
         err |-> res.err,
         reqCtx |-> [isNil |-> FALSE,
                     ClientIP |-> getClientIP(r),
                     AccessorID |-> IF res.tokenInfo.isNil THEN ""
                                    ELSE res.tokenInfo.AccessorID,
                     TokenInfo |-> res.tokenInfo]]

(***************************************************************************)
(* Request rewriter                                                        *)
(***************************************************************************)
\* The request's scoped context: the values under ctxWarnings and
\* ctxValidationError, and whether each key was set.
EmptyCtx ==
    [hasWarnings |-> FALSE, warnings |-> <<>>,
     hasValidationError |-> FALSE, validationError |-> NilErr,
     requestContext |-> EmptyReqCtx]

\* types.Payload{Job: job} with the request context attached.
Payload(job, r) == [Job |-> job, Context |-> r.ctx.requestContext]

\* No pipeline operation was called for the request.
NoPipe ==
    [ran |-> FALSE, inJob |-> NilJob, job |-> NilJob,
     warnings |-> <<>>, err |-> NilErr, calls |-> <<>>]

\* handleRegister without the check of the pipeline's error.
handleRegister_IgnoresError(r) ==
    LET d == JsonDecodeRequest(r.Body)
    IN  IF d.err
        THEN [r |-> r,
              err |-> Wrap("failed decoding job, skipping admission controller", DecodeErr),
              pipe |-> NoPipe]
        ELSE LET res == ApplyAdmissionControllers(Payload(d.Job, r))
                 p == [ran |-> TRUE, inJob |-> d.Job, job |-> res.job,
                       warnings |-> res.warnings, err |-> res.err, calls |-> res.calls]
                 data == JsonMarshalRequest([d EXCEPT !.Job = res.job])
                 ctx == IF Len(res.warnings) > 0
                        THEN [r.ctx EXCEPT !.hasWarnings = TRUE, !.warnings = res.warnings]
                        ELSE r.ctx
             IN  [r |-> rewriteRequest([r EXCEPT !.ctx = ctx], data),
                  err |-> NilErr,
                  pipe |-> p]

handleRegister(r) ==
    LET d == JsonDecodeRequest(r.Body)
    IN  IF d.err
        THEN [r |-> r,
              err |-> Wrap("failed decoding job, skipping admission controller", DecodeErr),
              pipe |-> NoPipe]
        ELSE LET res == ApplyAdmissionControllers(Payload(d.Job, r))
                 p == [ran |-> TRUE, inJob |-> d.Job, job |-> res.job,
                       warnings |-> res.warnings, err |-> res.err, calls |-> res.calls]
             IN  IF res.err.kind # "nil"
                 THEN [r |-> r,
                       err |-> Wrap("admission controllers send an error, returning error", res.err),
                       pipe |-> p]
                 ELSE LET data == JsonMarshalRequest([d EXCEPT !.Job = res.job])
                          ctx == IF Len(res.warnings) > 0
                                 THEN [r.ctx EXCEPT !.hasWarnings = TRUE,
                                                    !.warnings = res.warnings]
                                 ELSE r.ctx
                      IN  [r |-> rewriteRequest([r EXCEPT !.ctx = ctx], data),
                           err |-> NilErr,
                           pipe |-> p]

\* handlePlan running the pipeline a second time, on the job of the first
\* run, before it forwards.
handlePlan_RunsPipelineTwice(r) ==
    LET d == JsonDecodeRequest(r.Body)
    IN  IF d.err
        THEN [r |-> r,
              err |-> Wrap("failed decoding job, skipping admission controller", DecodeErr),
              pipe |-> NoPipe]
        ELSE LET res == ApplyAdmissionControllers(Payload(d.Job, r))
                 p == [ran |-> TRUE, inJob |-> d.Job, job |-> res.job,
                       warnings |-> res.warnings, err |-> res.err, calls |-> res.calls]
             IN  IF res.err.kind # "nil"
                 THEN [r |-> r,
                       err |-> Wrap("admission controllers send an error, returning error", res.err),
                       pipe |-> p]
                 ELSE LET again == ApplyAdmissionControllers(Payload(res.job, r))
                          data == JsonMarshalRequest([d EXCEPT !.Job = again.job])
                          ctx == IF Len(res.warnings) > 0
                                 THEN [r.ctx EXCEPT !.hasWarnings = TRUE,
                                                    !.warnings = res.warnings]
                                 ELSE r.ctx
                      IN  [r |-> rewriteRequest([r EXCEPT !.ctx = ctx], data),
                           err |-> NilErr,
                           pipe |-> [p EXCEPT !.job = again.job,
                                              !.calls = res.calls \o again.calls]]

handlePlan(r) ==
    LET d == JsonDecodeRequest(r.Body)
    IN  IF d.err
        THEN [r |-> r,
              err |-> Wrap("failed decoding job, skipping admission controller", DecodeErr),
              pipe |-> NoPipe]
        ELSE LET res == ApplyAdmissionControllers(Payload(d.Job, r))
                 p == [ran |-> TRUE, inJob |-> d.Job, job |-> res.job,
                       warnings |-> res.warnings, err |-> res.err, calls |-> res.calls]
             IN  IF res.err.kind # "nil"
                 THEN [r |-> r,
                       err |-> Wrap("admission controllers send an error, returning error", res.err),
                       pipe |-> p]
                 ELSE LET data == JsonMarshalRequest([d EXCEPT !.Job = res.job])
                          ctx == IF Len(res.warnings) > 0
                                 THEN [r.ctx EXCEPT !.hasWarnings = TRUE,
                                                    !.warnings = res.warnings]
                                 ELSE r.ctx
                      IN  [r |-> rewriteRequest([r EXCEPT !.ctx = ctx], data),
                           err |-> NilErr,
                           pipe |-> p]

\* handleValidate treating a mutator's error like a validator's: captured, forwarded.
handleValidate_CapturesMutatorError(r) ==
    LET d == JsonDecodeRequest(r.Body)
    IN  IF d.err
        THEN [r |-> r, err |-> DecodeErr, pipe |-> NoPipe]
        ELSE LET m == AdmissionMutators(Payload(d.Job, r))
             IN  IF FALSE
                 THEN [r |-> r,
                       err |-> m.err,
                       pipe |-> [ran |-> TRUE, inJob |-> d.Job, job |-> m.job,
                                 warnings |-> m.warnings, err |-> m.err,
                                 calls |-> m.calls]]
                 ELSE LET v == IF m.err.kind # "nil"
                               THEN [warnings |-> <<>>, err |-> m.err, calls |-> <<>>]
                               ELSE AdmissionValidators(Payload(m.job, r))
                          validateWarnings == v.warnings \o m.warnings
                          data == JsonMarshalRequest([d EXCEPT !.Job = m.job])
                          ctx1 == [r.ctx EXCEPT !.hasValidationError = TRUE,
                                                !.validationError = v.err]
                          ctx2 == IF Len(validateWarnings) > 0
                                  THEN [ctx1 EXCEPT !.hasWarnings = TRUE,
                                                    !.warnings = validateWarnings]
                                  ELSE ctx1
                      IN  [r |-> rewriteRequest([r EXCEPT !.ctx = ctx2], data),
                           err |-> NilErr,
                           pipe |-> [ran |-> TRUE, inJob |-> d.Job, job |-> m.job,
                                     warnings |-> validateWarnings, err |-> v.err,
                                     calls |-> m.calls \o v.calls]]

\* handleValidate appending the validator warnings to the mutator warnings.
handleValidate_MutatorWarningsFirst(r) ==
    LET d == JsonDecodeRequest(r.Body)
    IN  IF d.err
        THEN [r |-> r, err |-> DecodeErr, pipe |-> NoPipe]
        ELSE LET m == AdmissionMutators(Payload(d.Job, r))
             IN  IF m.err.kind # "nil"
                 THEN [r |-> r,
                       err |-> m.err,
                       pipe |-> [ran |-> TRUE, inJob |-> d.Job, job |-> m.job,
                                 warnings |-> m.warnings, err |-> m.err,
                                 calls |-> m.calls]]
                 ELSE LET v == IF m.err.kind # "nil"
                               THEN [warnings |-> <<>>, err |-> m.err, calls |-> <<>>]
                               ELSE AdmissionValidators(Payload(m.job, r))
                          validateWarnings == m.warnings \o v.warnings
                          data == JsonMarshalRequest([d EXCEPT !.Job = m.job])
                          ctx1 == [r.ctx EXCEPT !.hasValidationError = TRUE,
                                                !.validationError = v.err]
                          ctx2 == IF Len(validateWarnings) > 0
                                  THEN [ctx1 EXCEPT !.hasWarnings = TRUE,
                                                    !.warnings = validateWarnings]
                                  ELSE ctx1
                      IN  [r |-> rewriteRequest([r EXCEPT !.ctx = ctx2], data),
                           err |-> NilErr,
                           pipe |-> [ran |-> TRUE, inJob |-> d.Job, job |-> m.job,
                                     warnings |-> validateWarnings, err |-> v.err,
                                     calls |-> m.calls \o v.calls]]

\* handleValidate without payload.Job = job before the validators run.
handleValidate_ValidatorsSeeOriginalJob(r) ==
    LET d == JsonDecodeRequest(r.Body)
    IN  IF d.err
        THEN [r |-> r, err |-> DecodeErr, pipe |-> NoPipe]
        ELSE LET m == AdmissionMutators(Payload(d.Job, r))
             IN  IF m.err.kind # "nil"
                 THEN [r |-> r,
                       err |-> m.err,
                       pipe |-> [ran |-> TRUE, inJob |-> d.Job, job |-> m.job,
                                 warnings |-> m.warnings, err |-> m.err,
                                 calls |-> m.calls]]
                 ELSE LET v == IF m.err.kind # "nil"
                               THEN [warnings |-> <<>>, err |-> m.err, calls |-> <<>>]
                               ELSE AdmissionValidators(Payload(d.Job, r))
                          validateWarnings == v.warnings \o m.warnings
                          data == JsonMarshalRequest([d EXCEPT !.Job = m.job])
                          ctx1 == [r.ctx EXCEPT !.hasValidationError = TRUE,
                                                !.validationError = v.err]
                          ctx2 == IF Len(validateWarnings) > 0
                                  THEN [ctx1 EXCEPT !.hasWarnings = TRUE,
                                                    !.warnings = validateWarnings]
                                  ELSE ctx1
                      IN  [r |-> rewriteRequest([r EXCEPT !.ctx = ctx2], data),
                           err |-> NilErr,
                           pipe |-> [ran |-> TRUE, inJob |-> d.Job, job |-> m.job,
                                     warnings |-> validateWarnings, err |-> v.err,
                                     calls |-> m.calls \o v.calls]]

handleValidate(r) ==
    LET d == JsonDecodeRequest(r.Body)
    IN  IF d.err
        THEN [r |-> r, err |-> DecodeErr, pipe |-> NoPipe]
        ELSE LET m == AdmissionMutators(Payload(d.Job, r))
             IN  IF m.err.kind # "nil"
                 THEN [r |-> r,
                       err |-> m.err,
                       pipe |-> [ran |-> TRUE, inJob |-> d.Job, job |-> m.job,
                                 warnings |-> m.warnings, err |-> m.err,
                                 calls |-> m.calls]]
                 ELSE LET v == AdmissionValidators(Payload(m.job, r))
                          validateWarnings == v.warnings \o m.warnings
                          data == JsonMarshalRequest([d EXCEPT !.Job = m.job])
                          ctx1 == [r.ctx EXCEPT !.hasValidationError = TRUE,
                                                !.validationError = v.err]
                          ctx2 == IF Len(validateWarnings) > 0
                                  THEN [ctx1 EXCEPT !.hasWarnings = TRUE,
                                                    !.warnings = validateWarnings]
                                  ELSE ctx1
                      IN  [r |-> rewriteRequest([r EXCEPT !.ctx = ctx2], data),
                           err |-> NilErr,
                           pipe |-> [ran |-> TRUE, inJob |-> d.Job, job |-> m.job,
                                     warnings |-> validateWarnings, err |-> v.err,
                                     calls |-> m.calls \o v.calls]]


(***************************************************************************)
(* Responses                                                               *)
(***************************************************************************)
\* A response document: whether it is JSON at all, and the fields the
\* rewriter touches; Other stands for every other field of the reply.
NoDoc ==
    [json |-> FALSE, Warnings |-> EmptyText, ValidationErrors |-> <<>>,
     Error |-> EmptyText, Other |-> ""]

\* Body bytes: a document, gzip-compressed or not.
NoBytes == [gz |-> FALSE, doc |-> NoDoc]

TextLen(t) == Len(t.items) + (IF t.fmt = "raw" THEN 0 ELSE 3)

\* len(data) of an encoded response document.
DocLen(d) ==
    IF ~d.json THEN 9
    ELSE 20 + TextLen(d.Warnings) + Len(d.ValidationErrors) + TextLen(d.Error)

\* The number of body bytes: a gzip stream carries a header and a trailer.
ByteLen(b) == IF b.gz THEN DocLen(b.doc) + 18 ELSE DocLen(b.doc)

\* w.WriteHeader(500); w.Write(err.Error())
writeError(err) ==
    [status |-> 500, ContentEncoding |-> "", ContentLength |-> 0,
     Body |-> NoBytes, text |-> ErrorText(err)]

\* The reverse proxy's answer when ModifyResponse returns an error.
BadGateway ==
    [status |-> 502, ContentEncoding |-> "", ContentLength |-> 0,
     Body |-> NoBytes, text |-> EmptyText]

\* The connection is dropped when the handler panics.
Aborted ==
    [status |-> 0, ContentEncoding |-> "", ContentLength |-> 0,
     Body |-> NoBytes, text |-> EmptyText]

NoResp ==
    [status |-> -1, ContentEncoding |-> "", ContentLength |-> 0,
     Body |-> NoBytes, text |-> EmptyText]

\* The response as the proxy copies it to the client.
Deliver(resp) ==
    [status |-> resp.status, ContentEncoding |-> resp.ContentEncoding,
     ContentLength |-> resp.ContentLength, Body |-> resp.Body, text |-> EmptyText]

checkIfGzipAndTransformReader(resp) ==
    LET isGzip == resp.ContentEncoding = "gzip"
    IN  IF isGzip
        THEN IF ~resp.Body.gz
             THEN [isGzip |-> FALSE, err |-> TRUE, reader |-> NoDoc]
             ELSE [isGzip |-> TRUE, err |-> FALSE, reader |-> resp.Body.doc]
        ELSE [isGzip |-> FALSE, err |-> FALSE,
              reader |-> IF resp.Body.gz THEN NoDoc ELSE resp.Body.doc]

\* buildFullWarningMsg losing the upstream's warning.
buildFullWarningMsg_DropsUpstream(upstreamResponseWarnings, warnings) ==
    [prefix |-> "", fmt |-> "warnings", items |-> warnings]

\* helper.MergeMultierrorWarnings over the upstream's warning, when it is
\* not empty, followed by the local warnings.
buildFullWarningMsg(upstreamResponseWarnings, warnings) ==
    LET allWarnings ==
            (IF upstreamResponseWarnings # EmptyText
             THEN upstreamResponseWarnings.items
             ELSE <<>>) \o warnings
    IN  [prefix |-> "", fmt |-> "warnings", items |-> allWarnings]

rewriteResponse(resp, newResponeData) ==
    LET body == [gz |-> FALSE, doc |-> newResponeData]
    IN  [resp EXCEPT !.ContentLength = ByteLen(body), !.Body = body]

\* rewriteResponseGzip announcing the length of the uncompressed data.
rewriteResponseGzip_UncompressedLength(resp, newResponeData) ==
    LET compressed == [gz |-> TRUE, doc |-> newResponeData]
    IN  [resp EXCEPT !.ContentLength = DocLen(newResponeData), !.Body = compressed]

rewriteResponseGzip(resp, newResponeData) ==
    LET compressed == [gz |-> TRUE, doc |-> newResponeData]
    IN  [resp EXCEPT !.ContentLength = ByteLen(compressed), !.Body = compressed]

\* Decode as JobRegisterResponse / JobPlanResponse and marshal again: the
\* fields of the document that the type does not have are not written.
MarshalRegisterResponse(doc, warnings) ==
    [json |-> TRUE, Warnings |-> warnings, ValidationErrors |-> <<>>,
     Error |-> EmptyText, Other |-> doc.Other]

handRegisterResponse(resp, ctx) ==
    LET warnings == ctx.warnings
        ok == ctx.hasWarnings
    IN  IF ~ok /\ Len(warnings) = 0
        THEN [err |-> FALSE, panic |-> FALSE, resp |-> resp]
        ELSE LET g == checkIfGzipAndTransformReader(resp)
             IN  IF g.err \/ ~g.reader.json
                 THEN [err |-> TRUE, panic |-> FALSE, resp |-> resp]
                 ELSE LET responeData ==
                              MarshalRegisterResponse(
                                  g.reader,
                                  buildFullWarningMsg(g.reader.Warnings, warnings))
                      IN  [err |-> FALSE, panic |-> FALSE,
                           resp |-> IF g.isGzip
                                    THEN rewriteResponseGzip(resp, responeData)
                                    ELSE rewriteResponse(resp, responeData)]

handleJobPlanResponse(resp, ctx) ==
    LET warnings == ctx.warnings
        ok == ctx.hasWarnings
    IN  IF ~ok /\ Len(warnings) = 0
        THEN [err |-> FALSE, panic |-> FALSE, resp |-> resp]
        ELSE LET g == checkIfGzipAndTransformReader(resp)
             IN  IF g.err \/ ~g.reader.json
                 THEN [err |-> TRUE, panic |-> FALSE, resp |-> resp]
                 ELSE LET responeData ==
                              MarshalRegisterResponse(
                                  g.reader,
                                  buildFullWarningMsg(g.reader.Warnings, warnings))
                      IN  [err |-> FALSE, panic |-> FALSE,
                           resp |-> IF g.isGzip
                                    THEN rewriteResponseGzip(resp, responeData)
                                    ELSE rewriteResponse(resp, responeData)]

\* handleJobValdidateResponse taking the nil error that handleValidate stores
\* for an error: every Validate reply is decoded and encoded again.
handleJobValdidateResponse_NilErrorIsAnError(resp, ctx) ==
    LET validationErr == ctx.validationError
        okErr == ctx.hasValidationError
        warnings == ctx.warnings
        okWarnings == ctx.hasWarnings
    IN  IF ~okErr /\ ~okWarnings
        THEN [err |-> FALSE, panic |-> FALSE, resp |-> resp]
        ELSE LET g == checkIfGzipAndTransformReader(resp)
             IN  IF g.err \/ ~g.reader.json
                 THEN [err |-> TRUE, panic |-> FALSE, resp |-> resp]
                 ELSE IF validationErr.kind = "plain"
                 \* validationError = err.Error() with err the nil error of
                 \* the gzip check: a nil dereference.
                 THEN [err |-> FALSE, panic |-> TRUE, resp |-> resp]
                 ELSE LET r1 == IF validationErr.kind = "multi"
                                THEN [g.reader EXCEPT
                                        !.ValidationErrors = validationErr.msgs,
                                        !.Error = ErrorText(validationErr)]
                                ELSE g.reader
                          responeData ==
                              IF Len(warnings) > 0
                              THEN [r1 EXCEPT !.Warnings =
                                      buildFullWarningMsg(r1.Warnings, warnings)]
                              ELSE r1
                      IN  [err |-> FALSE, panic |-> FALSE,
                           resp |-> IF g.isGzip
                                    THEN rewriteResponseGzip(resp, responeData)
                                    ELSE rewriteResponse(resp, responeData)]

handleJobValdidateResponse(resp, ctx) ==
    LET validationErr == ctx.validationError
        okErr == ctx.hasValidationError /\ validationErr.kind # "nil"
        warnings == ctx.warnings
        okWarnings == ctx.hasWarnings
    IN  IF ~okErr /\ ~okWarnings
        THEN [err |-> FALSE, panic |-> FALSE, resp |-> resp]
        ELSE LET g == checkIfGzipAndTransformReader(resp)
             IN  IF g.err \/ ~g.reader.json
                 THEN [err |-> TRUE, panic |-> FALSE, resp |-> resp]
                 ELSE IF validationErr.kind = "plain"
                 \* validationError = err.Error() with err the nil error of
                 \* the gzip check: a nil dereference.
                 THEN [err |-> FALSE, panic |-> TRUE, resp |-> resp]
                 ELSE LET r1 == IF validationErr.kind = "multi"
                                THEN [g.reader EXCEPT
                                        !.ValidationErrors = validationErr.msgs,
                                        !.Error = ErrorText(validationErr)]
                                ELSE g.reader
                          responeData ==
                              IF Len(warnings) > 0
                              THEN [r1 EXCEPT !.Warnings =
                                      buildFullWarningMsg(r1.Warnings, warnings)]
                              ELSE r1
                      IN  [err |-> FALSE, panic |-> FALSE,
                           resp |-> IF g.isGzip
                                    THEN rewriteResponseGzip(resp, responeData)
                                    ELSE rewriteResponse(resp, responeData)]

\* ModifyResponse reading the side outputs from one place shared by all
\* requests, which holds those of the request that arrived last, instead of
\* from the context of resp.Request.
ModifyResponse_SharedSideOutputs(resp, r) ==
    LET busy == {i \in DOMAIN inflight : inflight[i].pc # "idle"}
        last == CHOOSE i \in busy : \A k \in busy : inflight[k].seq <= inflight[i].seq
        ctx == IF busy = {} THEN r.ctx ELSE inflight[last].fwd.ctx
    IN  IF isRegister(r) THEN handRegisterResponse(resp, ctx)
        ELSE IF isPlan(r) THEN handleJobPlanResponse(resp, ctx)
        ELSE IF isValidate(r) THEN handleJobValdidateResponse(resp, ctx)
        ELSE [err |-> FALSE, panic |-> FALSE, resp |-> resp]

\* proxy.ModifyResponse: resp.Request is the forwarded request r.
ModifyResponse(resp, r) ==
    IF isRegister(r) THEN handRegisterResponse(resp, r.ctx)
    ELSE IF isPlan(r) THEN handleJobPlanResponse(resp, r.ctx)
    ELSE IF isValidate(r) THEN handleJobValdidateResponse(resp, r.ctx)
    ELSE [err |-> FALSE, panic |-> FALSE, resp |-> resp]

\* The handler treating every request that is neither Plan nor Validate as
\* a Register.
ProxyHandler_AlwaysRegister(r) ==
    IF isPlan(r) THEN handlePlan(r)
    ELSE IF isValidate(r) THEN handleValidate(r)
    ELSE handleRegister(r)

\* The request path of the handler: classify, rewrite, run the pipeline.
ProxyHandler(r) ==
    IF isRegister(r) THEN handleRegister(r)
    ELSE IF isPlan(r) THEN handlePlan(r)
    ELSE IF isValidate(r) THEN handleValidate(r)
    ELSE [r |-> r, err |-> NilErr, pipe |-> NoPipe]

(***************************************************************************)
(* JSON documents and JSON-Patch                                           *)
(***************************************************************************)
\* A JSON value: null, a string, or an object (a function from its keys).
JNull == [t |-> "null"]

JStr(str) == [t |-> "str", s |-> str]

JObj(fields) == [t |-> "obj", f |-> fields]

\* json.Marshal of an *api.Job: every field is written, a nil map as null.
MarshalJob(j) ==
    IF j.isNil THEN JNull
    ELSE JObj([ID |-> JStr(j.ID),
               Meta |-> IF j.Meta.form = "nil" THEN JNull
                        ELSE JObj([k \in j.Meta.keys |-> JStr("v")])])

MarshalContext(c) ==
    IF c.isNil THEN JNull
    ELSE JObj([ClientIP |-> JStr(c.ClientIP), AccessorID |-> JStr(c.AccessorID)])

\* json.Marshal of a *types.Payload: an object with the job and the context.
MarshalPayload(payload) ==
    JObj([job |-> MarshalJob(payload.Job), context |-> MarshalContext(payload.Context)])

\* json.Unmarshal(data, &api.Job): keys that name no field of Job are
\* skipped, absent fields keep their zero value, a value of the wrong type
\* is an error.
UnmarshalJob(d) ==
    IF d.t = "null" THEN [err |-> FALSE, job |-> [isNil |-> FALSE, ID |-> "", Meta |-> NilMeta]]
    ELSE IF d.t # "obj" THEN [err |-> TRUE, job |-> NilJob]
    ELSE LET id == IF "ID" \in DOMAIN d.f THEN d.f["ID"] ELSE JNull
             meta == IF "Meta" \in DOMAIN d.f THEN d.f["Meta"] ELSE JNull
         IN  IF id.t = "obj" \/ meta.t = "str"
             THEN [err |-> TRUE, job |-> NilJob]
             ELSE [err |-> FALSE,
                   job |-> [isNil |-> FALSE,
                            ID |-> IF id.t = "str" THEN id.s ELSE "",
                            Meta |-> IF meta.t = "obj"
                                     THEN [form |-> "map", keys |-> DOMAIN meta.f]
                                     ELSE NilMeta]]

\* One RFC 6902 operation applied to a document; the path is the list of
\* its keys.
RECURSIVE ApplyOp(_, _)
ApplyOp(doc, o) ==
    IF doc.t # "obj" \/ o.path = <<>> THEN [err |-> TRUE, doc |-> doc]
    ELSE LET k == o.path[1]
         IN  IF Len(o.path) > 1
             THEN IF k \notin DOMAIN doc.f THEN [err |-> TRUE, doc |-> doc]
                  ELSE LET sub == ApplyOp(doc.f[k], [o EXCEPT !.path = Tail(o.path)])
                       IN  IF sub.err THEN [err |-> TRUE, doc |-> doc]
                           ELSE [err |-> FALSE,
                                 doc |-> JObj([x \in DOMAIN doc.f |->
                                                 IF x = k THEN sub.doc ELSE doc.f[x]])]
             ELSE CASE o.op = "add" ->
                         [err |-> FALSE,
                          doc |-> JObj([x \in DOMAIN doc.f \cup {k} |->
                                          IF x = k THEN o.value ELSE doc.f[x]])]
                    [] o.op = "remove" ->
                         IF k \in DOMAIN doc.f
                         THEN [err |-> FALSE,
                               doc |-> JObj([x \in DOMAIN doc.f \ {k} |-> doc.f[x]])]
                         ELSE [err |-> TRUE, doc |-> doc]
                    [] OTHER -> [err |-> TRUE, doc |-> doc]

\* patch.Apply(doc): the operations in order, stopping at the first error.
RECURSIVE ApplyPatch(_, _)
ApplyPatch(ops, doc) ==
    IF ops = <<>> THEN [err |-> FALSE, doc |-> doc]
    ELSE LET one == ApplyOp(doc, Head(ops))
         IN  IF one.err THEN one ELSE ApplyPatch(Tail(ops), one.doc)

\* fmt.Sprintf(format) without operands, on the characters of format: "%%"
\* prints a percent sign, a verb has no operand, a closing "%" has no verb.
RECURSIVE Sprintf(_)
Sprintf(format) ==
    IF format = <<>> THEN <<>>
    ELSE IF Head(format) # "%" THEN <<Head(format)>> \o Sprintf(Tail(format))
    ELSE IF Len(format) = 1 THEN <<"%", "!", "(", "N", "O", "V", "E", "R", "B", ")">>
    ELSE IF format[2] = "%" THEN <<"%">> \o Sprintf(Tail(Tail(format)))
    ELSE <<"%", "!", format[2], "(", "M", "I", "S", "S", "I", "N", "G", ")">>
            \o Sprintf(Tail(Tail(format)))

(***************************************************************************)
(* Webhook stages                                                          *)
(***************************************************************************)
\* The error of an HTTP call that got no answer.
TransportErr == PlainErr(<<"E", "O", "F">>)

\* What a webhook call returns before it has returned.
NoResult == [job |-> NilJob, warnings |-> <<>>, err |-> NilErr]

\* Validate up to the call: the request it builds.  http.NewRequest gives
\* the request the background context.
WebhookValidator_Request_AllHeaders(payload) ==
    [ctx |-> "background",
     body |-> MarshalPayload(payload),
     headers |-> [h \in {"X-Forwarded-For", "NACP-Client-IP"} |-> payload.Context.ClientIP]
                 @@ [h \in {"NACP-Accessor-ID"} |-> payload.Context.AccessorID]]

WebhookValidator_Request(payload) ==
    [ctx |-> "background",
     body |-> MarshalPayload(payload),
     headers |->
        IF payload.Context.isNil THEN <<>>
        ELSE (IF payload.Context.ClientIP # ""
              THEN [h \in {"X-Forwarded-For", "NACP-Client-IP"} |-> payload.Context.ClientIP]
              ELSE <<>>)
             @@ (IF payload.Context.AccessorID # ""
                 THEN [h \in {"NACP-Accessor-ID"} |-> payload.Context.AccessorID]
                 ELSE <<>>)]

\* Validate returning the warnings next to the errors.
WebhookValidator_Validate_WarningsWithErrors(payload, reply) ==
    IF ~reply.transport THEN [job |-> NilJob, warnings |-> <<>>, err |-> TransportErr]
    ELSE IF ~reply.decodable THEN [job |-> NilJob, warnings |-> <<>>, err |-> DecodeErr]
    ELSE IF Len(reply.errors) > 0
    THEN [job |-> NilJob, warnings |-> reply.warnings, err |-> MultiErr(reply.errors)]
    ELSE [job |-> NilJob, warnings |-> reply.warnings, err |-> NilErr]

\* Validate refusing a reply whose status is not 2xx.
WebhookValidator_Validate_ChecksStatus(payload, reply) ==
    IF ~reply.transport THEN [job |-> NilJob, warnings |-> <<>>, err |-> TransportErr]
    ELSE IF reply.status < 200 \/ reply.status > 299
    THEN [job |-> NilJob, warnings |-> <<>>, err |-> PlainErr(<<"s", "t", "a", "t", "u", "s">>)]
    ELSE IF ~reply.decodable THEN [job |-> NilJob, warnings |-> <<>>, err |-> DecodeErr]
    ELSE IF Len(reply.errors) > 0
    THEN [job |-> NilJob, warnings |-> <<>>, err |-> MultiErr(reply.errors)]
    ELSE [job |-> NilJob, warnings |-> reply.warnings, err |-> NilErr]

\* Validate from the call on: (warnings, err) for the answer the webhook
\* gave.  fmt.Errorf("%v", e) has the text e.
WebhookValidator_Validate(payload, reply) ==
    IF ~reply.transport THEN [job |-> NilJob, warnings |-> <<>>, err |-> TransportErr]
    ELSE IF ~reply.decodable THEN [job |-> NilJob, warnings |-> <<>>, err |-> DecodeErr]
    ELSE IF Len(reply.errors) > 0
    THEN [job |-> NilJob, warnings |-> <<>>, err |-> MultiErr(reply.errors)]
    ELSE [job |-> NilJob, warnings |-> reply.warnings, err |-> NilErr]

\* Mutate up to the call: the request it builds.
JsonPatchWebhookMutator_Request(payload) ==
    [ctx |-> "background",
     body |-> MarshalPayload(payload),
     headers |->
        IF payload.Context.isNil THEN <<>>
        ELSE (IF payload.Context.ClientIP # ""
              THEN [h \in {"X-Forwarded-For", "NACP-Client-IP"} |-> payload.Context.ClientIP]
              ELSE <<>>)
             @@ (IF payload.Context.AccessorID # ""
                 THEN [h \in {"NACP-Accessor-ID"} |-> payload.Context.AccessorID]
                 ELSE <<>>)]

\* Mutate treating the reply's errors as the webhook validator does: a
\* non-empty list is a hard error.
JsonPatchWebhookMutator_Mutate_ErrorsAreFatal(payload, reply) ==
    LET jobJson == MarshalPayload(payload)
    IN  IF ~reply.transport THEN [job |-> NilJob, warnings |-> <<>>, err |-> TransportErr]
        ELSE IF ~reply.decodable THEN [job |-> NilJob, warnings |-> <<>>, err |-> DecodeErr]
        ELSE IF Len(reply.errors) > 0
        THEN [job |-> NilJob, warnings |-> <<>>, err |-> MultiErr(reply.errors)]
        ELSE LET warnings == [i \in 1..Len(reply.warnings) |-> Sprintf(reply.warnings[i])]
                 patched == ApplyPatch(reply.patch.ops, jobJson)
                 patchedJob == UnmarshalJob(patched.doc)
             IN  IF patched.err
                 THEN [job |-> NilJob, warnings |-> <<>>,
                       err |-> PlainErr(<<"p", "a", "t", "c", "h">>)]
                 ELSE IF patchedJob.err
                 THEN [job |-> NilJob, warnings |-> <<>>, err |-> DecodeErr]
                 ELSE [job |-> patchedJob.job, warnings |-> warnings, err |-> NilErr]

\* Mutate from the call on: (job, warnings, err).  The patch is applied to
\* jobJson, which is the encoding of the payload; fmt.Errorf(warning) takes
\* the warning as its format.
JsonPatchWebhookMutator_Mutate(payload, reply) ==
    LET jobJson == MarshalPayload(payload)
    IN  IF ~reply.transport THEN [job |-> NilJob, warnings |-> <<>>, err |-> TransportErr]
        ELSE IF ~reply.decodable THEN [job |-> NilJob, warnings |-> <<>>, err |-> DecodeErr]
        ELSE LET warnings == [i \in 1..Len(reply.warnings) |-> Sprintf(reply.warnings[i])]
                 patched == ApplyPatch(reply.patch.ops, jobJson)
                 patchedJob == UnmarshalJob(patched.doc)
             IN  IF patched.err
                 THEN [job |-> NilJob, warnings |-> <<>>,
                       err |-> PlainErr(<<"p", "a", "t", "c", "h">>)]
                 ELSE IF patchedJob.err
                 THEN [job |-> NilJob, warnings |-> <<>>, err |-> DecodeErr]
                 ELSE [job |-> patchedJob.job, warnings |-> warnings, err |-> NilErr]

(***************************************************************************)
(* Building the server from its configuration                              *)
(***************************************************************************)
SeqsUpTo(S, n) == UNION {[1..k -> S] : k \in 0..n}

\* url.Parse(endpoint): an endpoint whose first segment holds a colon has
\* no scheme and is refused.
urlParse(endpoint) == [err |-> endpoint = ":bad"]

\* One entry of c.Mutators: its type, its resolve_token flag, and its
\* webhook endpoint.
MutatorEntries ==
    { [Type |-> t.Type, ResolveToken |-> f, Endpoint |-> t.Endpoint] :
        t \in { [Type |-> "opa_json_patch", Endpoint |-> ""],
                [Type |-> "json_patch_webhook", Endpoint |-> "http://hook/mutate"],
                [Type |-> "json_patch_webhook", Endpoint |-> ":bad"],
                [Type |-> "bogus", Endpoint |-> ""] },
        f \in BOOLEAN }

\* One entry of c.Validators.
ValidatorEntries ==
    { [Type |-> t.Type, ResolveToken |-> f, Endpoint |-> t.Endpoint] :
        t \in { [Type |-> "opa", Endpoint |-> ""],
                [Type |-> "webhook", Endpoint |-> "http://hook/validate"],
                [Type |-> "webhook", Endpoint |-> ":bad"],
                [Type |-> "notation", Endpoint |-> ""],
                [Type |-> "bogus", Endpoint |-> ""] },
        f \in BOOLEAN }

NoConf == [Mutators |-> <<>>, Validators |-> <<>>]

\* The loop of createMutators from entry i on; soFar is its resolveToken.
RECURSIVE createMutatorsFrom(_, _, _, _)
createMutatorsFrom(c, i, jobMutators, soFar) ==
    IF i > Len(c.Mutators)
    THEN [stages |-> jobMutators, resolveToken |-> soFar, err |-> FALSE]
    ELSE LET m == c.Mutators[i]
             flag == IF m.ResolveToken THEN TRUE ELSE soFar
         IN  CASE m.Type = "opa_json_patch" ->
                    createMutatorsFrom(c, i + 1, Append(jobMutators, m.Type), flag)
               [] m.Type = "json_patch_webhook" ->
                    IF urlParse(m.Endpoint).err
                    THEN [stages |-> <<>>, resolveToken |-> flag, err |-> TRUE]
                    ELSE createMutatorsFrom(c, i + 1, Append(jobMutators, m.Type), flag)
               [] OTHER -> [stages |-> <<>>, resolveToken |-> flag, err |-> TRUE]

createMutators(c) == createMutatorsFrom(c, 1, <<>>, FALSE)

\* The loop of createValidators from entry j on.
RECURSIVE createValidatorsFrom(_, _, _, _)
createValidatorsFrom(c, j, jobValidators, soFar) ==
    IF j > Len(c.Validators)
    THEN [stages |-> jobValidators, resolveToken |-> soFar, err |-> FALSE]
    ELSE LET v == c.Validators[j]
             flag == IF v.ResolveToken THEN TRUE ELSE soFar
         IN  CASE v.Type \in {"opa", "notation"} ->
                    createValidatorsFrom(c, j + 1, Append(jobValidators, v.Type), flag)
               [] v.Type = "webhook" ->
                    IF urlParse(v.Endpoint).err
                    THEN [stages |-> <<>>, resolveToken |-> flag, err |-> TRUE]
                    ELSE createValidatorsFrom(c, j + 1, Append(jobValidators, v.Type), flag)
               [] OTHER -> [stages |-> <<>>, resolveToken |-> flag, err |-> TRUE]

createValidators(c) == createValidatorsFrom(c, 1, <<>>, FALSE)

\* buildServer passing on the mutators' flag alone.
buildServer_MutatorsOnly(c) ==
    LET m == createMutators(c)
        v == createValidators(c)
    IN  IF m.err \/ v.err
        THEN [err |-> TRUE, mutators |-> <<>>, validators |-> <<>>, resolveToken |-> FALSE]
        ELSE [err |-> FALSE, mutators |-> m.stages, validators |-> v.stages,
              resolveToken |-> m.resolveToken]

\* buildServer: the stage lists and the flag NewJobHandler is given.
buildServer(c) ==
    LET m == createMutators(c)
        v == createValidators(c)
    IN  IF m.err \/ v.err
        THEN [err |-> TRUE, mutators |-> <<>>, validators |-> <<>>, resolveToken |-> FALSE]
        ELSE [err |-> FALSE, mutators |-> m.stages, validators |-> v.stages,
              resolveToken |-> IF m.resolveToken \/ v.resolveToken THEN TRUE ELSE FALSE]

(***************************************************************************)
(* Inputs                                                                  *)
(***************************************************************************)

Methods == {"GET", "POST"}

Paths == {JobsPath, JobPrefix \o <<"a">> \o PlanSuffix, ValidatePath}

WireJob(form, keys) == [isNil |-> FALSE, ID |-> "app", Meta |-> [form |-> form, keys |-> keys]]

Bodies ==
    { [valid |-> FALSE, Job |-> WireJob("absent", {}), PolicyOverride |-> FALSE],
      [valid |-> TRUE,  Job |-> WireJob("absent", {}), PolicyOverride |-> FALSE],
      [valid |-> TRUE,  Job |-> WireJob("map", {"foo"}), PolicyOverride |-> TRUE] }

UpMsg == Msg("existing", 0)

UpDocs ==
    { [json |-> FALSE, Warnings |-> EmptyText, ValidationErrors |-> <<>>,
       Error |-> EmptyText, Other |-> "Permission denied"],
      [json |-> TRUE, Warnings |-> EmptyText, ValidationErrors |-> <<>>,
       Error |-> EmptyText, Other |-> "eval-1"],
      [json |-> TRUE, Warnings |-> RawText(UpMsg),
       ValidationErrors |-> <<Msg("upstream validation error", 0)>>,
       Error |-> RawText(Msg("upstream validation error", 0)), Other |-> "eval-2"] }

UpstreamResponses ==
    { [status |-> 200, ContentEncoding |-> enc,
       ContentLength |-> ByteLen([gz |-> enc = "gzip", doc |-> d]),
       Body |-> [gz |-> enc = "gzip", doc |-> d]] :
      enc \in {"identity", "gzip"}, d \in UpDocs }

\* Who calls: the token and the forwarding header the request carries, and
\* the peer address of its connection.
Clients ==
    { [Token |-> "", XForwardedFor |-> <<>>,
       RemoteAddr |-> [host |-> "10.0.0.9", port |-> 4646]],
      [Token |-> "secret", XForwardedFor |-> <<"1.1.1.1", " 2.2.2.2">>,
       RemoteAddr |-> [host |-> "10.0.0.9", port |-> 4646]] }

NoReq ==
    [Method |-> "", Path |-> <<>>,
     Body |-> [valid |-> FALSE, Job |-> WireJob("absent", {}), PolicyOverride |-> FALSE],
     ContentLength |-> 0, Token |-> "", XForwardedFor |-> <<>>,
     RemoteAddr |-> [host |-> "", port |-> 0], ctx |-> EmptyCtx]

NoUpResp ==
    [status |-> -1, ContentEncoding |-> "", ContentLength |-> 0, Body |-> NoBytes]

\* The jobs, request contexts and payloads a webhook stage is handed.
WebhookJobs ==
    { [isNil |-> FALSE, ID |-> "", Meta |-> NilMeta],
      [isNil |-> FALSE, ID |-> "app", Meta |-> NilMeta],
      [isNil |-> FALSE, ID |-> "app", Meta |-> [form |-> "map", keys |-> {"old"}]] }

WebhookContexts ==
    {NilReqCtx} \cup
    { [isNil |-> FALSE, ClientIP |-> ip, AccessorID |-> a,
       TokenInfo |-> IF a = "" THEN NoTokenInfo ELSE [isNil |-> FALSE, AccessorID |-> a]] :
        ip \in {"", "1.1.1.1"}, a \in {"", "acc-1"} }

WebhookPayloads == { [Job |-> j, Context |-> c] : j \in WebhookJobs, c \in WebhookContexts }

\* The texts a webhook lists, as their characters.
WebhookErrors == { <<>>, << <<"e", "1">> >>, << <<"e", "1">>, <<"e", "2">> >> }

WebhookWarnings == { <<>>, << <<"w", "1">>, <<"9", "%">> >> }

\* The answers of a validator webhook: none at all, a body that does not
\* decode, or a decodable body with its lists, under either status.
ValidatorReplies ==
    { [transport |-> FALSE, status |-> 0, decodable |-> FALSE,
       errors |-> <<>>, warnings |-> <<>>] }
    \cup { [transport |-> TRUE, status |-> st, decodable |-> FALSE,
            errors |-> <<>>, warnings |-> <<>>] : st \in {200, 500} }
    \cup { [transport |-> TRUE, status |-> st, decodable |-> TRUE,
            errors |-> es, warnings |-> ws] :
            st \in {200, 500}, es \in WebhookErrors, ws \in WebhookWarnings }

\* The patches a mutator webhook may answer: none, an empty one, operations
\* on the keys of a job, on the keys of a payload, and on no key at all.
NoPatch == [present |-> FALSE, ops |-> <<>>]

Patches ==
    { NoPatch,
      [present |-> TRUE, ops |-> <<>>],
      [present |-> TRUE,
       ops |-> <<[op |-> "add", path |-> <<"Meta">>, value |-> JObj([foo |-> JStr("bar")])]>>],
      [present |-> TRUE,
       ops |-> <<[op |-> "add", path |-> <<"job", "Meta">>,
                  value |-> JObj([foo |-> JStr("bar")])]>>],
      [present |-> TRUE,
       ops |-> <<[op |-> "add", path |-> <<"ID">>, value |-> JObj([x |-> JStr("y")])]>>],
      [present |-> TRUE,
       ops |-> <<[op |-> "remove", path |-> <<"Nope">>, value |-> JNull]>>] }

MutatorReplies ==
    { [transport |-> FALSE, status |-> 0, decodable |-> FALSE,
       patch |-> NoPatch, errors |-> <<>>, warnings |-> <<>>] }
    \cup { [transport |-> TRUE, status |-> st, decodable |-> FALSE,
            patch |-> NoPatch, errors |-> <<>>, warnings |-> <<>>] : st \in {200, 500} }
    \cup { [transport |-> TRUE, status |-> st, decodable |-> TRUE,
            patch |-> pt, errors |-> es, warnings |-> ws] :
            st \in {200, 500}, pt \in Patches,
            es \in {<<>>, << <<"e", "1">> >>}, ws \in WebhookWarnings }

\* No outbound call.
NoCall ==
    [kind |-> "none", phase |-> "none", ctx |-> "", headers |-> <<>>, body |-> JNull,
     payload |-> [Job |-> NilJob, Context |-> NilReqCtx], token |-> "",
     reply |-> [transport |-> FALSE], result |-> NoResult, goneInFlight |-> FALSE]

(***************************************************************************)
(* The proxy                                                               *)
(***************************************************************************)
Init ==
    /\ conf = NoConf
    /\ mutators \in SeqsUpTo(MutatorKinds, MaxMutators)
    /\ validators \in SeqsUpTo(ValidatorKinds, MaxValidators)
    /\ pc = "idle"
    /\ req = NoReq
    /\ route = "Passthrough"
    /\ pipe = NoPipe
    /\ upstreamReqs = <<>>
    /\ upResp = NoUpResp
    /\ clientResp = NoResp
    /\ resolveToken = FALSE
    /\ selfCalls = <<>>
    /\ call = NoCall
    /\ cancelled = FALSE
    /\ inflight = <<>>

\* A request arrives and the handler runs up to proxy.ServeHTTP or writeError.
ServeHTTP ==
    /\ pc = "idle"
    /\ \E m \in Methods, p \in Paths, b \in Bodies, c \in Clients, s \in SelfReplies :
        LET in == [Method |-> m, Path |-> p, Body |-> b,
                   ContentLength |-> BodyLen(b), Token |-> c.Token,
                   XForwardedFor |-> c.XForwardedFor, RemoteAddr |-> c.RemoteAddr,
                   ctx |-> EmptyCtx]
            rc == NewRequestContext(in, resolveToken, s)
            r == [in EXCEPT !.ctx.requestContext = rc.reqCtx]
            h == ProxyHandler(r)
        IN  /\ req' = r
            /\ selfCalls' = rc.calls
            /\ route' = Route(r)
            /\ pipe' = h.pipe
            /\ upResp' = NoUpResp
            /\ IF h.err.kind # "nil"
               THEN /\ clientResp' = writeError(h.err)
                    /\ upstreamReqs' = <<>>
                    /\ pc' = "done"
               ELSE /\ clientResp' = NoResp
                    /\ upstreamReqs' = <<h.r>>
                    /\ pc' = "upstream"
    /\ UNCHANGED <<inflight, call, cancelled, conf, mutators, validators, resolveToken>>

\* The upstream answers; ModifyResponse runs; the client gets the result.
UpstreamReply ==
    /\ pc = "upstream"
    /\ \E u \in UpstreamResponses :
        LET out == ModifyResponse(u, upstreamReqs[1])
        IN  /\ upResp' = u
            /\ clientResp' = IF out.panic THEN Aborted
                             ELSE IF out.err THEN BadGateway
                             ELSE Deliver(out.resp)
    /\ pc' = "done"
    /\ UNCHANGED <<inflight, call, cancelled, conf, mutators, validators, req, route, pipe, upstreamReqs,
                   resolveToken, selfCalls>>

\* The request is over: its scoped context and everything else about it is
\* released, and the proxy waits for the next request.
EndRequest ==
    /\ pc = "done"
    /\ pc' = "idle"
    /\ req' = NoReq
    /\ route' = "Passthrough"
    /\ pipe' = NoPipe
    /\ upstreamReqs' = <<>>
    /\ upResp' = NoUpResp
    /\ clientResp' = NoResp
    /\ selfCalls' = <<>>
    /\ UNCHANGED <<inflight, call, cancelled, conf, mutators, validators, resolveToken>>

Next == ServeHTTP \/ UpstreamReply \/ EndRequest

Spec == Init /\ [][Next]_vars

\* The same proxy with the resolve-token flag as the configuration may set
\* it, and short stage lists.
InitToken ==
    /\ conf = NoConf
    /\ mutators \in SeqsUpTo(MutatorKinds, MaxTokenStages)
    /\ validators \in SeqsUpTo(ValidatorKinds, MaxTokenStages)
    /\ pc = "idle"
    /\ req = NoReq
    /\ route = "Passthrough"
    /\ pipe = NoPipe
    /\ upstreamReqs = <<>>
    /\ upResp = NoUpResp
    /\ clientResp = NoResp
    /\ resolveToken \in BOOLEAN
    /\ selfCalls = <<>>
    /\ call = NoCall
    /\ cancelled = FALSE
    /\ inflight = <<>>

SpecToken == InitToken /\ [][Next]_vars

(***************************************************************************)
(* The route classifier on its own                                         *)
(***************************************************************************)
IdChars == {"a", "B", "Z", "1", "-", "_"}

RoutePrefixes == {JobPrefix, JobsPath, ValidatePath, <<"/","v","1","/","j","o","b">>}

RouteSuffixes == {<<>>, PlanSuffix}

RoutePaths ==
    { pre \o id \o suf :
        pre \in RoutePrefixes, id \in SeqsUpTo(IdChars, MaxIdLen), suf \in RouteSuffixes }

InitRoute ==
    /\ conf = NoConf
    /\ mutators = <<>>
    /\ validators = <<>>
    /\ pc = "idle"
    /\ req \in { [NoReq EXCEPT !.Method = m, !.Path = p] :
                   m \in {"GET", "PUT", "POST"}, p \in RoutePaths }
    /\ route = "Passthrough"
    /\ pipe = NoPipe
    /\ upstreamReqs = <<>>
    /\ upResp = NoUpResp
    /\ clientResp = NoResp
    /\ resolveToken = FALSE
    /\ selfCalls = <<>>
    /\ call = NoCall
    /\ cancelled = FALSE
    /\ inflight = <<>>

Classify ==
    /\ pc = "idle"
    /\ route' = Route(req)
    /\ pc' = "classified"
    /\ UNCHANGED <<inflight, call, cancelled, conf, mutators, validators, req, pipe, upstreamReqs, upResp, clientResp,
                   resolveToken, selfCalls>>

SpecRoute == InitRoute /\ [][Classify]_vars

(***************************************************************************)
(* The construction of the server on its own                               *)
(***************************************************************************)
InitBuild ==
    /\ conf \in [Mutators : SeqsUpTo(MutatorEntries, MaxMutators),
                  Validators : SeqsUpTo(ValidatorEntries, MaxValidators)]
    /\ mutators = <<>>
    /\ validators = <<>>
    /\ pc = "config"
    /\ req = NoReq
    /\ route = "Passthrough"
    /\ pipe = NoPipe
    /\ upstreamReqs = <<>>
    /\ upResp = NoUpResp
    /\ clientResp = NoResp
    /\ resolveToken = FALSE
    /\ selfCalls = <<>>
    /\ call = NoCall
    /\ cancelled = FALSE
    /\ inflight = <<>>

\* buildServer runs: either it fails and there is no server, or the job
\* handler exists with its stage lists and its flag.
BuildServer ==
    /\ pc = "config"
    /\ LET b == buildServer(conf)
       IN  /\ pc' = IF b.err THEN "failed" ELSE "idle"
           /\ mutators' = b.mutators
           /\ validators' = b.validators
           /\ resolveToken' = b.resolveToken
    /\ UNCHANGED <<inflight, call, cancelled, conf, req, route, pipe, upstreamReqs, upResp, clientResp, selfCalls>>

SpecBuild == InitBuild /\ [][BuildServer]_vars

(***************************************************************************)
(* The outbound calls on their own                                         *)
(***************************************************************************)
InitCall ==
    /\ conf = NoConf
    /\ mutators = <<>>
    /\ validators = <<>>
    /\ pc = "idle"
    /\ req = NoReq
    /\ route = "Passthrough"
    /\ pipe = NoPipe
    /\ upstreamReqs = <<>>
    /\ upResp = NoUpResp
    /\ clientResp = NoResp
    /\ resolveToken \in BOOLEAN
    /\ selfCalls = <<>>
    /\ call = NoCall
    /\ cancelled = FALSE
    /\ inflight = <<>>

\* The call can still return: calls made under the request's context stop
\* returning once that context is done.
CanReturn == call.phase = "inflight" /\ ~(cancelled /\ call.ctx = "request")

\* A webhook validator is invoked and sends its request.
ValidateSend ==
    /\ pc = "idle"
    /\ \E payload \in WebhookPayloads :
        LET out == WebhookValidator_Request(payload)
        IN  call' = [NoCall EXCEPT !.kind = "validator", !.phase = "inflight",
                                   !.payload = payload, !.ctx = out.ctx,
                                   !.headers = out.headers, !.body = out.body]
    /\ pc' = "calling"
    /\ UNCHANGED <<inflight, cancelled, conf, mutators, validators, req, route, pipe, upstreamReqs,
                   upResp, clientResp, resolveToken, selfCalls>>

\* The webhook answers (or the call fails) and Validate returns.
ValidateReturn ==
    /\ pc = "calling"
    /\ call.kind = "validator"
    /\ CanReturn
    /\ \E reply \in ValidatorReplies :
        call' = [call EXCEPT !.phase = "returned", !.reply = reply,
                             !.result = WebhookValidator_Validate(call.payload, reply)]
    /\ pc' = "called"
    /\ UNCHANGED <<inflight, cancelled, conf, mutators, validators, req, route, pipe, upstreamReqs,
                   upResp, clientResp, resolveToken, selfCalls>>

\* A webhook mutator is invoked and sends its request.
MutateSend ==
    /\ pc = "idle"
    /\ \E payload \in WebhookPayloads :
        LET out == JsonPatchWebhookMutator_Request(payload)
        IN  call' = [NoCall EXCEPT !.kind = "mutator", !.phase = "inflight",
                                   !.payload = payload, !.ctx = out.ctx,
                                   !.headers = out.headers, !.body = out.body]
    /\ pc' = "calling"
    /\ UNCHANGED <<inflight, cancelled, conf, mutators, validators, req, route, pipe, upstreamReqs,
                   upResp, clientResp, resolveToken, selfCalls>>

\* The webhook answers (or the call fails) and Mutate returns.
MutateReturn ==
    /\ pc = "calling"
    /\ call.kind = "mutator"
    /\ CanReturn
    /\ \E reply \in MutatorReplies :
        call' = [call EXCEPT !.phase = "returned", !.reply = reply,
                             !.result = JsonPatchWebhookMutator_Mutate(call.payload, reply)]
    /\ pc' = "called"
    /\ UNCHANGED <<inflight, cancelled, conf, mutators, validators, req, route, pipe, upstreamReqs,
                   upResp, clientResp, resolveToken, selfCalls>>

\* The handler resolves the request's token: GET /v1/acl/token/self, built
\* by http.NewRequest under the background context.
ResolveSend ==
    /\ pc = "idle"
    /\ resolveToken
    /\ \E c \in Clients :
        /\ c.Token # ""
        /\ call' = [NoCall EXCEPT !.kind = "resolver", !.phase = "inflight",
                                  !.ctx = "background", !.token = c.Token,
                                  !.headers = [h \in {"X-Nomad-Token"} |-> c.Token]]
    /\ pc' = "calling"
    /\ UNCHANGED <<inflight, cancelled, conf, mutators, validators, req, route, pipe, upstreamReqs,
                   upResp, clientResp, resolveToken, selfCalls>>

\* The upstream answers (or the call fails) and the resolver returns.
ResolveReturn ==
    /\ pc = "calling"
    /\ call.kind = "resolver"
    /\ CanReturn
    /\ \E s \in SelfReplies :
        LET out == resolveTokenAccessor(call.token, s)
        IN  /\ call' = [call EXCEPT !.phase = "returned", !.reply = s,
                                    !.result = [job |-> NilJob, warnings |-> <<>>,
                                                err |-> out.err]]
            /\ selfCalls' = out.calls
    /\ pc' = "called"
    /\ UNCHANGED <<inflight, cancelled, conf, mutators, validators, req, route, pipe, upstreamReqs,
                   upResp, clientResp, resolveToken>>

\* proxy.ServeHTTP(w, r): the reverse proxy sends the request upstream
\* under the request's own context.
ProxySend ==
    /\ pc = "idle"
    /\ \E c \in Clients :
        LET r == [NoReq EXCEPT !.Method = "GET", !.Path = JobsPath, !.Token = c.Token,
                               !.XForwardedFor = c.XForwardedFor,
                               !.RemoteAddr = c.RemoteAddr]
        IN  /\ req' = r
            /\ upstreamReqs' = <<r>>
            /\ call' = [NoCall EXCEPT !.kind = "upstream", !.phase = "inflight",
                                      !.ctx = "request", !.token = c.Token]
    /\ pc' = "calling"
    /\ UNCHANGED <<inflight, cancelled, conf, mutators, validators, route, pipe, upResp, clientResp,
                   resolveToken, selfCalls>>

\* The upstream answers and the client gets the response.
ProxyReturn ==
    /\ pc = "calling"
    /\ call.kind = "upstream"
    /\ CanReturn
    /\ \E u \in UpstreamResponses :
        /\ upResp' = u
        /\ clientResp' = Deliver(ModifyResponse(u, upstreamReqs[1]).resp)
    /\ call' = [call EXCEPT !.phase = "returned"]
    /\ pc' = "called"
    /\ UNCHANGED <<inflight, cancelled, conf, mutators, validators, req, route, pipe, upstreamReqs,
                   resolveToken, selfCalls>>

\* The client goes away: the context of its request is done.
ClientDisconnect ==
    /\ pc \in {"idle", "calling"}
    /\ ~cancelled
    /\ cancelled' = TRUE
    /\ call' = [call EXCEPT !.goneInFlight = (call.phase = "inflight")]
    /\ UNCHANGED <<inflight, conf, mutators, validators, pc, req, route, pipe, upstreamReqs, upResp,
                   clientResp, resolveToken, selfCalls>>

\* A call made under the request's context ends with the context's error.
CallAborted ==
    /\ pc = "calling"
    /\ call.phase = "inflight"
    /\ cancelled
    /\ call.ctx = "request"
    /\ call' = [call EXCEPT !.phase = "cancelled"]
    /\ pc' = "called"
    /\ UNCHANGED <<inflight, cancelled, conf, mutators, validators, req, route, pipe, upstreamReqs,
                   upResp, clientResp, resolveToken, selfCalls>>

NextCall ==
    \/ ValidateSend \/ ValidateReturn
    \/ MutateSend \/ MutateReturn
    \/ ResolveSend \/ ResolveReturn
    \/ ProxySend \/ ProxyReturn
    \/ ClientDisconnect \/ CallAborted

SpecCall == InitCall /\ [][NextCall]_vars

(***************************************************************************)
(* Requests in flight concurrently                                         *)
(***************************************************************************)
\* net/http serves every request on a goroutine of its own: the handler of
\* one request and the ModifyResponse of another interleave freely.  Each
\* goroutine has its own *http.Request and context; the job handler, the
\* proxy and the transport are shared and not written after buildServer.
MaxInFlight == 2

\* A goroutine that serves no request.
NoFlight ==
    [pc |-> "idle", seq |-> 0, req |-> NoReq, fwd |-> NoReq, forwarded |-> FALSE,
     pipe |-> NoPipe, upResp |-> NoUpResp, clientResp |-> NoResp]

\* The stage lists the concurrent server is built with.
ConcPipelines ==
    { [mutators |-> ms, validators |-> vs] :
        ms \in {<<>>, <<[op |-> "hello", warn |-> TRUE, err |-> "nil"]>>},
        vs \in {<<>>, <<[warn |-> TRUE, err |-> "nil"]>>,
                <<[warn |-> FALSE, err |-> "multi"]>>} }

\* The requests of the concurrent clients: one of each class, from the
\* client that sends no token.
ConcRequests ==
    { [Method |-> m, Path |-> p, Body |-> b, ContentLength |-> BodyLen(b),
       Token |-> c.Token, XForwardedFor |-> c.XForwardedFor,
       RemoteAddr |-> c.RemoteAddr, ctx |-> EmptyCtx] :
        m \in {"POST"}, p \in Paths,
        b \in {x \in Bodies : x.valid /\ ~x.PolicyOverride},
        c \in {x \in Clients : x.Token = ""} }
    \cup
    { [Method |-> m, Path |-> p, Body |-> b, ContentLength |-> BodyLen(b),
       Token |-> c.Token, XForwardedFor |-> c.XForwardedFor,
       RemoteAddr |-> c.RemoteAddr, ctx |-> EmptyCtx] :
        m \in {"GET"}, p \in {JobsPath},
        b \in {x \in Bodies : ~x.valid},
        c \in {x \in Clients : x.Token = ""} }

\* The upstream's replies to them.
ConcResponses ==
    { u \in UpstreamResponses : u.ContentEncoding = "identity" \/ u.Body.doc.Warnings # EmptyText }

InitConc ==
    /\ conf = NoConf
    /\ \E c \in ConcPipelines : mutators = c.mutators /\ validators = c.validators
    /\ pc = "idle"
    /\ req = NoReq
    /\ route = "Passthrough"
    /\ pipe = NoPipe
    /\ upstreamReqs = <<>>
    /\ upResp = NoUpResp
    /\ clientResp = NoResp
    /\ resolveToken = FALSE
    /\ selfCalls = <<>>
    /\ call = NoCall
    /\ cancelled = FALSE
    /\ inflight = [i \in 1..MaxInFlight |-> NoFlight]

\* A goroutine takes a request and runs the handler up to proxy.ServeHTTP or
\* writeError, while other requests are anywhere between their two steps.
Accept ==
    /\ \E i \in DOMAIN inflight, in \in ConcRequests :
        LET rc == NewRequestContext(in, resolveToken, CHOOSE s \in SelfReplies : TRUE)
            r == [in EXCEPT !.ctx.requestContext = rc.reqCtx]
            h == ProxyHandler(r)
            arrived == Cardinality({k \in DOMAIN inflight : inflight[k].pc # "idle"})
        IN  /\ inflight[i].pc = "idle"
            /\ inflight' =
                  [inflight EXCEPT ![i] =
                     [pc |-> IF h.err.kind # "nil" THEN "done" ELSE "upstream",
                      seq |-> arrived + 1,
                      req |-> r,
                      fwd |-> h.r,
                      forwarded |-> h.err.kind = "nil",
                      pipe |-> h.pipe,
                      upResp |-> NoUpResp,
                      clientResp |-> IF h.err.kind # "nil" THEN writeError(h.err)
                                     ELSE NoResp]]
    /\ UNCHANGED <<call, cancelled, conf, mutators, validators, pc, req, route, pipe,
                   upstreamReqs, upResp, clientResp, resolveToken, selfCalls>>

\* The upstream answers one of the forwarded requests, in any order;
\* ModifyResponse runs on its goroutine with resp.Request the request that
\* was forwarded for it.
Respond ==
    /\ \E i \in DOMAIN inflight, u \in ConcResponses :
        LET out == ModifyResponse(u, inflight[i].fwd)
        IN  /\ inflight[i].pc = "upstream"
            /\ inflight' =
                  [inflight EXCEPT ![i].pc = "done",
                                   ![i].upResp = u,
                                   ![i].clientResp = IF out.panic THEN Aborted
                                                     ELSE IF out.err THEN BadGateway
                                                     ELSE Deliver(out.resp)]
    /\ UNCHANGED <<call, cancelled, conf, mutators, validators, pc, req, route, pipe,
                   upstreamReqs, upResp, clientResp, resolveToken, selfCalls>>

NextConc == Accept \/ Respond

SpecConc == InitConc /\ [][NextConc]_vars

(***************************************************************************)
(* Properties                                                              *)
(***************************************************************************)
Intercepted == {"Register", "Plan", "Validate"}

\* The pipeline returned a hard error, raised by a stage of the given kind.
FailedAt(kind) ==
    /\ pipe.ran
    /\ pipe.err.kind # "nil"
    /\ Len(pipe.calls) > 0
    /\ pipe.calls[Len(pipe.calls)].kind = kind

Forwarded == Len(upstreamReqs) = 1

\* What the stage of call c returned when it was invoked.
CallOutcome(c) ==
    IF c.kind = "m"
    THEN Mutate(mutators[c.idx], c.idx, [Job |-> c.job])
    ELSE [job |-> c.job,
          warnings |-> Validate(validators[c.idx], c.idx, [Job |-> c.job]).warnings,
          err |-> Validate(validators[c.idx], c.idx, [Job |-> c.job]).err]

\* The warnings of the calls of cs that are of one of the kinds and did not
\* fail, in call order.
RECURSIVE WarningsOf(_, _)
WarningsOf(cs, kinds) ==
    IF cs = <<>> THEN <<>>
    ELSE (IF cs[1].kind \in kinds /\ CallOutcome(cs[1]).err.kind = "nil"
          THEN CallOutcome(cs[1]).warnings
          ELSE <<>>) \o WarningsOf(Tail(cs), kinds)

\* The response rewriter decoded, changed and re-encoded the upstream's
\* reply, and the client received it.
Rewritten ==
    /\ pc = "done"
    /\ Forwarded
    /\ route \in Intercepted
    /\ clientResp.status = 200
    /\ \/ upstreamReqs[1].ctx.hasWarnings
       \/ /\ upstreamReqs[1].ctx.hasValidationError
          /\ upstreamReqs[1].ctx.validationError.kind # "nil"

\* C1: on Register and Plan, a hard error of any mutator or validator means
\* that no request is sent upstream and that the client receives HTTP 500
\* with the error's text in the body.
C1_HardErrorNotForwarded ==
    (route \in {"Register", "Plan"} /\ pipe.ran /\ pipe.err.kind # "nil")
        => /\ upstreamReqs = <<>>
           /\ clientResp.status = 500
           /\ clientResp.text.items = pipe.err.msgs
           /\ clientResp.text.fmt = ErrorText(pipe.err).fmt

C1_Witness ==
    /\ route = "Plan"
    /\ FailedAt("v")
    /\ pipe.err.kind = "multi"
    /\ clientResp.status = 500

\* C2: on Validate, a validator's hard error, multi-error or plain, still
\* lets the request go upstream with the mutated job, and the client's
\* response has ValidationErrors equal to the error's messages in order and
\* Error equal to its combined message.
C2_ValidateErrorInBand ==
    (pc = "done" /\ route = "Validate" /\ FailedAt("v") /\ upResp.Body.doc.json)
        => /\ Forwarded
           /\ decodeJob(upstreamReqs[1].Body.Job) = pipe.job
           /\ clientResp.status = 200
           /\ clientResp.Body.doc.ValidationErrors = pipe.err.msgs
           /\ clientResp.Body.doc.Error = ErrorText(pipe.err)

\* C3 as stated: on Validate a mutator's hard error does not abort the
\* request; it is forwarded and no local 500 is written.
C3_MutatorErrorForwarded ==
    (route = "Validate" /\ FailedAt("m"))
        => /\ Forwarded
           /\ clientResp.status # 500

\* C3 amended: on Validate a mutator's hard error aborts the request: no
\* request is sent upstream and the client receives a local HTTP 500 whose
\* body is the error's text.
C3_MutatorErrorAborts ==
    (route = "Validate" /\ FailedAt("m"))
        => /\ upstreamReqs = <<>>
           /\ clientResp.status = 500
           /\ clientResp.text = ErrorText(pipe.err)

C3_Witness ==
    /\ route = "Validate"
    /\ FailedAt("m")
    /\ Len(pipe.calls) = 2
    /\ pc = "done"

\* C4 as stated: on Validate the stashed warnings are the mutator warnings
\* followed by the validator warnings.
C4_MutatorWarningsFirst ==
    (route = "Validate" /\ Forwarded)
        => upstreamReqs[1].ctx.warnings =
               WarningsOf(pipe.calls, {"m"}) \o WarningsOf(pipe.calls, {"v"})

\* C4 amended: on Validate the stashed warnings are the validator warnings
\* followed by the mutator warnings, each phase in stage order, and they
\* are stashed exactly when there is one.
C4_ValidatorWarningsFirst ==
    (route = "Validate" /\ Forwarded)
        => /\ upstreamReqs[1].ctx.warnings =
                  WarningsOf(pipe.calls, {"v"}) \o WarningsOf(pipe.calls, {"m"})
           /\ upstreamReqs[1].ctx.hasWarnings = (upstreamReqs[1].ctx.warnings # <<>>)

C4_Witness ==
    /\ route = "Validate"
    /\ Forwarded
    /\ Len(WarningsOf(pipe.calls, {"m"})) = 2
    /\ Len(WarningsOf(pipe.calls, {"v"})) = 2

\* The job IDs of the documented patterns: a letter, then letters, digits
\* and hyphens.
DocumentedId(id) ==
    /\ Len(id) >= 1
    /\ id[1] \in Lower \cup Upper
    /\ \A i \in 2..Len(id) : id[i] \in Lower \cup Upper \cup Digits \cup {"-"}

DocumentedRoute(r) ==
    LET write == r.Method \in {"PUT", "POST"}
        p == r.Path
    IN  IF write /\ (p = JobsPath
                     \/ (HasPrefix(p, JobPrefix)
                         /\ DocumentedId(SubSeq(p, Len(JobPrefix) + 1, Len(p)))))
        THEN "Register"
        ELSE IF write /\ HasPrefix(p, JobPrefix) /\ HasSuffix(p, PlanSuffix)
                /\ Len(p) >= Len(JobPrefix) + Len(PlanSuffix)
                /\ DocumentedId(SubSeq(p, Len(JobPrefix) + 1, Len(p) - Len(PlanSuffix)))
        THEN "Plan"
        ELSE IF write /\ p = ValidatePath THEN "Validate"
        ELSE "Passthrough"

\* C5: the classifier returns Register and Plan exactly on the documented
\* methods and path patterns; a job ID with an uppercase letter after a
\* digit or hyphen is intercepted.
C5_ClassifierMatchesPatterns ==
    pc = "classified" => route = DocumentedRoute(req)

\* The job a mutator call hands on: the job it returned, or the job it was
\* given when it returned none.
HandedOn(c) ==
    IF CallOutcome(c).job.isNil THEN c.job ELSE CallOutcome(c).job

\* C6: within one request the stages are invoked in the order m1..mn then
\* v1..vm, every mutator before any validator; mutator i is passed the job
\* mutator i-1 returned (the request's job for i = 1; a mutator returning no
\* job hands on the job it was given), and every validator is passed the
\* job the last mutator returned.
C6_StageOrderAndJobs ==
    pipe.ran =>
        LET cs == pipe.calls
            nm == Cardinality({a \in 1..Len(cs) : cs[a].kind = "m"})
        IN  /\ \A a \in 1..Len(cs) :
                 /\ cs[a].kind = (IF a <= nm THEN "m" ELSE "v")
                 /\ cs[a].idx = (IF a <= nm THEN a ELSE a - nm)
                 /\ cs[a].job = (IF a = 1 THEN pipe.inJob
                                 ELSE IF a <= nm + 1 THEN HandedOn(cs[a - 1])
                                 ELSE cs[a - 1].job)
            /\ nm <= Len(mutators)
            /\ Len(cs) - nm <= Len(validators)
            /\ Len(cs) > nm => nm = Len(mutators)

C6_Witness ==
    /\ route = "Validate"
    /\ pipe.ran
    /\ Len(pipe.calls) = 4
    /\ pipe.calls[2].job # pipe.inJob
    /\ pipe.calls[4].job # pipe.inJob

\* C7: ApplyAdmissionControllers stops at the first stage that returns a
\* hard error: the failing stage is the last one invoked, and the returned
\* warnings are the warnings of the stages before it, in order, without
\* those of the failing stage.
C7_StopsAtFirstHardError ==
    (route \in {"Register", "Plan"} /\ pipe.ran) =>
        LET cs == pipe.calls
            n == Len(cs)
        IN  /\ \A a \in 1..n :
                 (CallOutcome(cs[a]).err.kind # "nil") <=> (a = n /\ pipe.err.kind # "nil")
            /\ pipe.err.kind # "nil" => pipe.err = CallOutcome(cs[n]).err
            /\ pipe.err.kind = "nil" => n = Len(mutators) + Len(validators)
            /\ pipe.warnings = WarningsOf(cs, {"m", "v"})

C7_Witness ==
    /\ route = "Register"
    /\ FailedAt("m")
    /\ Len(pipe.calls) = 2
    /\ Len(validators) = 2
    /\ Len(pipe.warnings) = 1
    /\ CallOutcome(pipe.calls[2]).warnings # <<>>

\* The job a JSON text denotes: its ID and the entries of its Meta.
Denotes(w) == <<w.isNil, w.ID, w.Meta.keys>>

\* C8: with no mutators configured and no validator failing, the job
\* ApplyAdmissionControllers returns is the payload's job and the job
\* forwarded upstream is the job the client sent.
C8_NoMutatorsJobUnchanged ==
    (mutators = <<>> /\ route \in Intercepted /\ pipe.ran /\ pipe.err.kind = "nil")
        => /\ pipe.job = pipe.inJob
           /\ Forwarded
           /\ Denotes(upstreamReqs[1].Body.Job) = Denotes(req.Body.Job)

C8_Witness ==
    /\ mutators = <<>>
    /\ Len(validators) = 2
    /\ route = "Register"
    /\ Forwarded
    /\ req.Body.Job.Meta.keys = {"foo"}

\* The upstream's warning as the first warning, when it is not empty.
UpstreamFirst ==
    IF upResp.Body.doc.Warnings # EmptyText
    THEN <<upResp.Body.doc.Warnings.items[1]>>
    ELSE <<>>

\* C9 as stated: in every rewritten Register, Plan or Validate response the
\* Warnings field lists the upstream's warning first, when it is not empty,
\* and then the local warnings in pipeline order (mutators, then
\* validators); none is dropped.
C9_WarningsInPipelineOrder ==
    Rewritten =>
        clientResp.Body.doc.Warnings.items =
            UpstreamFirst \o WarningsOf(pipe.calls, {"m", "v"})

\* C9 amended: the Warnings field lists the upstream's warning first, when
\* it is not empty, and then the local warnings in the order the request
\* handler stashed them: pipeline order on Register and Plan, the validator
\* warnings before the mutator warnings on Validate; none is dropped.
C9_WarningsMerged ==
    Rewritten =>
        LET up == upResp.Body.doc.Warnings
            local == IF route = "Validate"
                     THEN WarningsOf(pipe.calls, {"v"}) \o WarningsOf(pipe.calls, {"m"})
                     ELSE WarningsOf(pipe.calls, {"m", "v"})
            got == clientResp.Body.doc.Warnings
        IN  /\ got.items = UpstreamFirst \o local
            /\ local # <<>> => got.fmt = "warnings"
            /\ local = <<>> => got = up

C9_Witness ==
    /\ Rewritten
    /\ route = "Validate"
    /\ upResp.Body.doc.Warnings # EmptyText
    /\ Len(clientResp.Body.doc.Warnings.items) = 4

\* C10: a rewritten response keeps the upstream's content encoding: a gzip
\* reply is delivered as gzip of the modified document, an identity reply
\* as the modified document itself, and Content-Length is the number of
\* body bytes written.
C10_EncodingPreserved ==
    Rewritten =>
        /\ clientResp.ContentEncoding = upResp.ContentEncoding
        /\ clientResp.Body.gz = (upResp.ContentEncoding = "gzip")
        /\ clientResp.ContentLength = ByteLen(clientResp.Body)
        /\ clientResp.Body.doc.json
        /\ clientResp.Body.doc # upResp.Body.doc
        /\ clientResp.Body.doc.Other = upResp.Body.doc.Other

C10_Witness ==
    /\ Rewritten
    /\ upResp.ContentEncoding = "gzip"
    /\ clientResp.Body.gz
    /\ clientResp.ContentLength # upResp.ContentLength

\* C11: a request classified as Passthrough invokes no mutator and no
\* validator, goes upstream with the body the client sent, and the client
\* receives the upstream's response body as it is.
C11_PassthroughUntouched ==
    (pc \in {"upstream", "done"} /\ route = "Passthrough")
        => /\ pipe = NoPipe
           /\ Forwarded
           /\ upstreamReqs[1].Body = req.Body
           /\ upstreamReqs[1].ContentLength = req.ContentLength
           /\ (pc = "done" => /\ clientResp.Body = upResp.Body
                              /\ clientResp.status = upResp.status
                              /\ clientResp.ContentLength = upResp.ContentLength)

C11_Witness ==
    /\ pc = "done"
    /\ route = "Passthrough"
    /\ req.Path = JobsPath
    /\ req.Body.valid
    /\ Len(mutators) > 0
    /\ upResp.Body.gz
    /\ upResp.Body.doc.json
    /\ clientResp.Body = upResp.Body

\* C17: when the body of a Register, Plan or Validate request cannot be
\* decoded as its envelope, no mutator or validator is invoked, no request is
\* sent upstream, and the client receives HTTP 500 whose body contains the
\* decoder's error text.
C17_DecodeFailureIsFatal ==
    (pc \in {"upstream", "done"} /\ route \in Intercepted /\ ~req.Body.valid)
        => /\ pipe = NoPipe
           /\ upstreamReqs = <<>>
           /\ pc = "done"
           /\ clientResp.status = 500
           /\ clientResp.text.items = ErrorText(DecodeErr).items
           /\ clientResp.text.fmt = "raw"

C17_Witness ==
    /\ pc = "done"
    /\ route = "Validate"
    /\ ~req.Body.valid
    /\ Len(mutators) > 0
    /\ Len(validators) > 0
    /\ clientResp.status = 500

\* C20: for a Register, Plan or Validate request that is forwarded, the
\* forwarded body is the client's envelope with only Job replaced by the
\* encoding of the pipeline's resulting job: every other envelope field has
\* the value the client sent, and the forwarded content length is the length
\* of the re-encoded body.
C20_OnlyJobReplaced ==
    (route \in Intercepted /\ Forwarded)
        => /\ pipe.ran
           /\ upstreamReqs[1].Body.valid
           /\ upstreamReqs[1].Body.Job = encodeJob(pipe.job)
           /\ upstreamReqs[1].Body.PolicyOverride = req.Body.PolicyOverride
           /\ upstreamReqs[1].ContentLength = BodyLen(upstreamReqs[1].Body)
           /\ upstreamReqs[1].Method = req.Method
           /\ upstreamReqs[1].Path = req.Path

C20_Witness ==
    /\ route = "Register"
    /\ Forwarded
    /\ req.Body.PolicyOverride
    /\ pipe.job # pipe.inJob
    /\ upstreamReqs[1].Body.PolicyOverride
    /\ upstreamReqs[1].ContentLength # req.ContentLength

\* The resolver's call of this request was answered 200 with a decodable
\* body.
ResolverSucceeded ==
    /\ selfCalls # <<>>
    /\ selfCalls[1].reply.transport
    /\ selfCalls[1].reply.status = 200
    /\ selfCalls[1].reply.decodable

\* C16: token resolution never fails a request.  The resolver is called
\* only when the pipeline's resolveToken flag is set (and the request has a
\* token); the context gets a token exactly when the call was answered 200
\* with a decodable body; and with an empty token or a failed call the
\* context has accessorID and tokenInfo unset and the request is classified,
\* run through the pipeline and forwarded or refused as the handler does
\* for that request whatever the resolver said.
C16_TokenResolutionNeverFatal ==
    (pc \in {"upstream", "done"})
        => LET rc == req.ctx.requestContext
               h == ProxyHandler(req)
           IN  /\ Len(selfCalls) <= 1
               /\ (selfCalls # <<>> => /\ resolveToken
                                       /\ req.Token # ""
                                       /\ selfCalls[1].token = req.Token)
               /\ (~rc.TokenInfo.isNil <=> ResolverSucceeded)
               /\ (ResolverSucceeded => rc.AccessorID = selfCalls[1].reply.AccessorID)
               /\ (~ResolverSucceeded
                     => /\ rc = [EmptyReqCtx EXCEPT !.ClientIP = getClientIP(req)]
                        /\ route = Route(req)
                        /\ pipe = h.pipe
                        /\ (h.err.kind = "nil" => upstreamReqs = <<h.r>>)
                        /\ (h.err.kind # "nil" => /\ upstreamReqs = <<>>
                                                  /\ clientResp = writeError(h.err)))

C16_Witness ==
    /\ pc = "done"
    /\ resolveToken
    /\ selfCalls # <<>>
    /\ selfCalls[1].reply.status = 403
    /\ route = "Register"
    /\ pipe.ran
    /\ Forwarded
    /\ clientResp.status = 200
    /\ req.ctx.requestContext.TokenInfo.isNil

\* Some configured stage has its resolve-token flag set.
SomeStageResolvesToken ==
    \/ \E i \in 1..Len(conf.Mutators) : conf.Mutators[i].ResolveToken
    \/ \E j \in 1..Len(conf.Validators) : conf.Validators[j].ResolveToken

\* C19: once the server is built, the pipeline's resolveToken flag is true
\* if and only if at least one configured mutator or validator has its
\* resolve-token flag set.
C19_ResolveTokenIsOrOfFlags ==
    (pc = "idle")
        => /\ resolveToken <=> SomeStageResolvesToken
           /\ Len(mutators) = Len(conf.Mutators)
           /\ Len(validators) = Len(conf.Validators)

C19_Witness ==
    /\ pc = "idle"
    /\ resolveToken
    /\ Len(conf.Mutators) = 1
    /\ ~conf.Mutators[1].ResolveToken
    /\ Len(conf.Validators) = 2
    /\ ~conf.Validators[1].ResolveToken
    /\ conf.Validators[2].ResolveToken

\* A webhook stage of the given kind was called and has returned.
Returned(kind) == call.kind = kind /\ call.phase = "returned"

PatchedJob(job, ops) ==
    LET patched == ApplyPatch(ops, MarshalJob(job))
    IN  IF patched.err THEN [err |-> TRUE, job |-> NilJob] ELSE UnmarshalJob(patched.doc)

\* C13: the webhook mutator applies the returned patch to the JSON encoding
\* of the payload's job: it fails exactly when that application or the
\* decoding of its result fails, and otherwise returns the input job with
\* the patch applied, every field the patch leaves alone kept.
C13_PatchAppliesToJob ==
    (Returned("mutator") /\ call.reply.transport /\ call.reply.decodable)
        => LET want == PatchedJob(call.payload.Job, call.reply.patch.ops)
           IN  /\ (call.result.err.kind # "nil" <=> want.err)
               /\ (~want.err => call.result.job = want.job)

\* C14: when the mutator webhook's reply has no patch, absent or empty,
\* Mutate returns no error, a job equal to the input job, and exactly the
\* reply's warnings in reply order.
C14_NoPatchIsNoOp ==
    (Returned("mutator") /\ call.reply.transport /\ call.reply.decodable
     /\ call.reply.patch.ops = <<>>)
        => /\ call.result.err.kind = "nil"
           /\ call.result.job = call.payload.Job
           /\ call.result.warnings = call.reply.warnings

\* C15: on every outbound webhook call, of a validator or a mutator,
\* X-Forwarded-For and NACP-Client-IP are set, to clientIP, if and only if
\* the payload has a context whose clientIP is not empty, NACP-Accessor-ID
\* is set, to accessorID, if and only if the context's accessorID is not
\* empty, and no other header is set.
C15_ContextHeaders ==
    (call.kind \in {"validator", "mutator"})
        => LET c == call.payload.Context
               hasIP == ~c.isNil /\ c.ClientIP # ""
               hasAccessor == ~c.isNil /\ c.AccessorID # ""
           IN  /\ ("X-Forwarded-For" \in DOMAIN call.headers) <=> hasIP
               /\ ("NACP-Client-IP" \in DOMAIN call.headers) <=> hasIP
               /\ ("NACP-Accessor-ID" \in DOMAIN call.headers) <=> hasAccessor
               /\ (hasIP => /\ call.headers["X-Forwarded-For"] = c.ClientIP
                            /\ call.headers["NACP-Client-IP"] = c.ClientIP)
               /\ (hasAccessor => call.headers["NACP-Accessor-ID"] = c.AccessorID)
               /\ DOMAIN call.headers
                     \subseteq {"X-Forwarded-For", "NACP-Client-IP", "NACP-Accessor-ID"}

C15_Witness ==
    /\ call.kind = "mutator"
    /\ call.phase = "inflight"
    /\ ~call.payload.Context.isNil
    /\ call.payload.Context.ClientIP = "1.1.1.1"
    /\ call.payload.Context.AccessorID = ""
    /\ DOMAIN call.headers = {"X-Forwarded-For", "NACP-Client-IP"}

\* C18: when the client disconnects while a webhook stage's call or the
\* token resolver's call is in flight, that call is cancelled: it does not
\* run to completion.
C18_OutboundCallsCancelled ==
    (call.kind \in {"validator", "mutator", "resolver"} /\ call.goneInFlight)
        => call.phase # "returned"

\* The call handed a mutator that returned a nil job and a nil error.
NilJobReturned(c) ==
    /\ c.kind = "m"
    /\ CallOutcome(c).err.kind = "nil"
    /\ CallOutcome(c).job.isNil

\* C21: a mutator that returns a nil job with no error changes nothing: the
\* stage invoked next is handed the job that mutator was handed, the pipeline
\* that ends with it returns that job, and no stage and no result of a
\* pipeline started on a non-nil job ever holds a nil job.
C21_NilJobIsNoOp ==
    (pipe.ran /\ ~pipe.inJob.isNil) =>
        /\ ~pipe.job.isNil
        /\ \A k \in 1..Len(pipe.calls) :
              /\ ~pipe.calls[k].job.isNil
              /\ NilJobReturned(pipe.calls[k]) =>
                    IF k < Len(pipe.calls)
                    THEN pipe.calls[k + 1].job = pipe.calls[k].job
                    ELSE pipe.job = pipe.calls[k].job

\* A mutator that changed the job, then one that returned nil, then a stage.
C21_Witness ==
    /\ pipe.ran
    /\ ~pipe.inJob.isNil
    /\ \E k \in 2..Len(pipe.calls) - 1 :
          /\ NilJobReturned(pipe.calls[k])
          /\ pipe.calls[k].job # pipe.inJob
          /\ pipe.calls[k + 1].job = pipe.calls[k].job

\* C22: for a forwarded Register, Plan or Validate request whose pipeline
\* produced no warning and no validation error, the response rewriter leaves
\* the upstream's reply alone: status, body bytes, Content-Length and
\* Content-Encoding reach the client as the upstream sent them, whether or
\* not the body is JSON.
C22_NoSideOutputsNoRewrite ==
    (/\ pc = "done"
     /\ route \in Intercepted
     /\ Forwarded
     /\ pipe.warnings = <<>>
     /\ pipe.err.kind = "nil")
        => /\ clientResp = Deliver(upResp)
           /\ clientResp.Body = upResp.Body
           /\ clientResp.ContentLength = upResp.ContentLength
           /\ clientResp.ContentEncoding = upResp.ContentEncoding

\* A Validate request that ran stages silently; the upstream's reply is a
\* gzip body that is not JSON, which a decode would have refused.
C22_Witness ==
    /\ pc = "done"
    /\ route = "Validate"
    /\ Forwarded
    /\ Len(pipe.calls) >= 2
    /\ pipe.calls[Len(pipe.calls)].kind = "v"
    /\ pipe.warnings = <<>>
    /\ pipe.err.kind = "nil"
    /\ upstreamReqs[1].ctx.hasValidationError
    /\ upResp.Body.gz
    /\ ~upResp.Body.doc.json
    /\ clientResp.status = 200
    /\ clientResp.Body = upResp.Body

\* Status codes of the classes a webhook may answer with.
StatusCodes == {200, 204, 403, 500, 503}

\* C25: the webhook validator's verdict does not depend on the reply's HTTP
\* status: whatever the status, a reply that decodes with an empty errors
\* list admits the job with no hard error and the reply's warnings, and the
\* same reply under any other status gives the same warnings and error.
C25_StatusIgnored ==
    (Returned("validator") /\ call.reply.transport)
        => /\ (call.reply.decodable /\ call.reply.errors = <<>>)
                => /\ call.result.err = NilErr
                   /\ call.result.warnings = call.reply.warnings
           /\ \A st \in StatusCodes :
                 WebhookValidator_Validate(call.payload, [call.reply EXCEPT !.status = st])
                    = call.result

\* A reply with status 500, no errors and two warnings admitted the job.
C25_Witness ==
    /\ Returned("validator")
    /\ call.reply.transport
    /\ call.reply.status = 500
    /\ call.reply.decodable
    /\ call.reply.errors = <<>>
    /\ Len(call.reply.warnings) = 2
    /\ call.result.err = NilErr
    /\ call.result.warnings = call.reply.warnings

\* The patch of the reply applied to the document the mutator sent, and the
\* patched document decoded as a job.
PatchStageSucceeded ==
    LET patched == ApplyPatch(call.reply.patch.ops, call.body)
    IN  /\ ~patched.err
        /\ ~UnmarshalJob(patched.doc).err

C27_LocalErrorOverwrites ==
    (/\ pc = "done"
     /\ route = "Validate"
     /\ Forwarded
     /\ upstreamReqs[1].ctx.validationError.kind # "nil"
     /\ upResp.Body.doc.json)
        => LET d == clientResp.Body.doc
               u == upResp.Body.doc
               e == upstreamReqs[1].ctx.validationError
           IN  /\ clientResp.status = upResp.status
               /\ clientResp.ContentEncoding = upResp.ContentEncoding
               /\ d.json
               /\ d.ValidationErrors = e.msgs
               /\ d.Error = ErrorText(e)
               /\ d.Other = u.Other
               /\ (~upstreamReqs[1].ctx.hasWarnings => d.Warnings = u.Warnings)

\* No mutator and no validator was invoked twice for the request.
NoStageTwice ==
    \A k, l \in 1..Len(pipe.calls) :
        (pipe.calls[k].kind = pipe.calls[l].kind /\ pipe.calls[k].idx = pipe.calls[l].idx)
            => k = l

\* The response rewriter has something to merge into the upstream's reply.
MustRewrite ==
    /\ route \in Intercepted
    /\ \/ pipe.warnings # <<>>
       \/ route = "Validate" /\ pipe.err.kind # "nil"

\* C24 as stated: a request ends either with a local 500 and nothing sent
\* upstream, or with exactly one upstream request whose reply, rewritten or
\* not, is what the client gets; and no stage runs twice.
C24_TwoOutcomes ==
    (pc = "done")
        => /\ NoStageTwice
           /\ \/ /\ upstreamReqs = <<>>
                 /\ clientResp.status = 500
                 /\ clientResp.text # EmptyText
              \/ /\ Len(upstreamReqs) = 1
                 /\ clientResp.text = EmptyText
                 /\ clientResp.status = upResp.status
                 /\ clientResp.ContentEncoding = upResp.ContentEncoding
                 /\ clientResp.ContentLength = ByteLen(clientResp.Body)
                 /\ clientResp.Body.doc.json = upResp.Body.doc.json

\* C24 (amended): a request is either answered locally with HTTP 500, the
\* handler's error as its body and nothing sent upstream, or forwarded
\* upstream exactly once, never both, and no stage runs twice.  The client
\* of a forwarded request gets the upstream's reply, rewritten or not,
\* unless the rewriter has side outputs to merge and fails: on a reply that
\* is not JSON the reverse proxy answers 502, and on a plain validation
\* error the rewriter panics and the client gets no response.
C24_OneOutcomePerRequest ==
    (pc = "done")
        => /\ NoStageTwice
           /\ Len(upstreamReqs) <= 1
           /\ upstreamReqs = <<>> <=> ProxyHandler(req).err.kind # "nil"
           /\ upstreamReqs = <<>>
                => /\ clientResp = writeError(ProxyHandler(req).err)
                   /\ clientResp.status = 500
                   /\ upResp = NoUpResp
           /\ Forwarded
                => /\ clientResp.text = EmptyText
                   /\ IF MustRewrite /\ ~upResp.Body.doc.json
                      THEN clientResp = BadGateway
                      ELSE IF MustRewrite /\ pipe.err.kind = "plain"
                      THEN clientResp = Aborted
                      ELSE /\ clientResp.status = upResp.status
                           /\ clientResp.ContentEncoding = upResp.ContentEncoding
                           /\ clientResp.ContentLength = ByteLen(clientResp.Body)
                           /\ clientResp.Body.doc.json = upResp.Body.doc.json
                           /\ (~MustRewrite => clientResp = Deliver(upResp))

\* A Register request whose stages warned was forwarded once; the upstream's
\* reply is not JSON, and the client gets the proxy's 502 instead of it.
C24_Witness ==
    /\ pc = "done"
    /\ route = "Register"
    /\ Forwarded
    /\ Len(pipe.calls) >= 3
    /\ NoStageTwice
    /\ pipe.warnings # <<>>
    /\ ~upResp.Body.doc.json
    /\ clientResp = BadGateway

\* The side outputs of flight f's own pipeline run that the response
\* rewriter has to merge.
OwnSideOutputs(f) ==
    /\ Route(f.req) \in Intercepted
    /\ \/ f.pipe.warnings # <<>>
       \/ Route(f.req) = "Validate" /\ f.pipe.err.kind # "nil"

\* C23: with several requests in flight at once, in any interleaving of
\* their handlers and replies, the context of each forwarded request holds
\* the warnings and the validation error of that request's own pipeline run,
\* and the response its client gets has exactly those merged in: a request
\* without side outputs gets the upstream's reply untouched whatever the
\* others produced, and one with side outputs gets its own and nobody else's.
C23_NoCrossRequestLeak ==
    \A i \in DOMAIN inflight :
        LET f == inflight[i]
            u == f.upResp.Body.doc
            d == f.clientResp.Body.doc
        IN  /\ f.pc # "idle" => f.pipe = ProxyHandler(f.req).pipe
            /\ f.forwarded
                 => /\ f.fwd.ctx.warnings = f.pipe.warnings
                    /\ f.fwd.ctx.hasWarnings <=> f.pipe.warnings # <<>>
                    /\ f.fwd.ctx.validationError =
                          (IF Route(f.req) = "Validate" THEN f.pipe.err ELSE NilErr)
            /\ (f.pc = "done" /\ f.forwarded)
                 => /\ ~OwnSideOutputs(f) => f.clientResp = Deliver(f.upResp)
                    /\ (OwnSideOutputs(f) /\ ~u.json) => f.clientResp = BadGateway
                    /\ (OwnSideOutputs(f) /\ u.json)
                         => /\ f.clientResp.status = f.upResp.status
                            /\ d.Warnings =
                                  (IF f.pipe.warnings = <<>> THEN u.Warnings
                                   ELSE buildFullWarningMsg(u.Warnings, f.pipe.warnings))
                            /\ Route(f.req) = "Validate"
                                 => /\ d.ValidationErrors =
                                          (IF f.pipe.err.kind = "nil" THEN u.ValidationErrors
                                           ELSE f.pipe.err.msgs)
                                    /\ d.Error =
                                          (IF f.pipe.err.kind = "nil" THEN u.Error
                                           ELSE ErrorText(f.pipe.err))

\* Two requests with different warnings are in flight together; the one
\* that arrived last is answered first and its reply carries its own
\* warnings, while the earlier one still waits for the upstream.
C23_Witness ==
    \E i, k \in DOMAIN inflight :
        /\ i # k
        /\ inflight[i].pc = "done"
        /\ inflight[i].forwarded
        /\ inflight[k].pc = "upstream"
        /\ inflight[k].seq < inflight[i].seq
        /\ inflight[i].pipe.warnings # <<>>
        /\ inflight[k].pipe.warnings # <<>>
        /\ inflight[i].pipe.warnings # inflight[k].pipe.warnings
        /\ inflight[i].upResp.Body.doc.json
        /\ inflight[i].clientResp.Body.doc.Warnings =
              buildFullWarningMsg(inflight[i].upResp.Body.doc.Warnings,
                                  inflight[i].pipe.warnings)

====
